---- MODULE Spec2Model ----
(***************************************************************************)
(* Premier League match predictor backend: the SQLite store (database.py), *)
(* the ingestion loop and synchronization pass (scheduler.py).             *)
(*                                                                         *)
(* Encodings.  Dates are day numbers (the 'YYYY-MM-DD' strings of the      *)
(* store compare as their days do).  Ratings and expected scores are fixed *)
(* point numbers in units of 1/ELO_SCALE; the logistic curve of the rating *)
(* update is tabulated every 10 rating points and interpolated.  A row id  *)
(* (team_id, match_id) is the row's position in its table: both tables are *)
(* AUTOINCREMENT and no operation modelled here deletes a row.             *)
(***************************************************************************)
EXTENDS Integers, Sequences, FiniteSets, TLC

(* ------------------------------ bounds -------------------------------- *)

\* rows the matches table may hold
MaxMatches == 2
\* rating updates applied in one behaviour
MaxElo == 2
\* records in one batch handed to process_new_matches
MaxBatch == 2
\* the matches of a stored history read by the feature lookup
MaxMeetings == 6

(* --------------------------- program values --------------------------- *)

\* SQL NULL / a missing api id (ids of the upstream source are positive)
NULL == 0
\* Python None in a score field (scores are non-negative)
NoScore == -1
\* a date string datetime.fromisoformat rejects
BadDate == -1
\* fixed point: 1.0 is ELO_SCALE units
ELO_SCALE == 10000

K_FACTOR == 30
HOME_ADVANTAGE == 70
\* teams.current_elo_rating DEFAULT 1500.0
DEFAULT_ELO == 1500

HOME_WIN == -1
DRAW == 0
AWAY_WIN == 1

\* the day the modelled run takes place on (CURRENT_TIMESTAMP, datetime.now)
Today == 3

(* ------------------------------- state -------------------------------- *)

VARIABLES
    teams,        \* table teams: Seq of [api_team_id, name, elo, updated_at]
    matches,      \* table matches: Seq of [api_match_id, home_team_id, away_team_id, date, home_goals, away_goals, result]
    predictions,  \* table match_predictions: set of [match_id, probs]
    settings,     \* table system_settings: [last_fetched_date, historical_matches_processed]
    eloLog,       \* match ids for which update_elo_ratings committed, in order (its log line)
    model,        \* the model ModelService loads: "ok", or "failing" when its predict_proba raises
    tasks,        \* the schedule_updates tasks of the event loop: where each one stands
    last          \* the call that produced this state: operation, arguments, result

vars == <<teams, matches, predictions, settings, eloLog, model, tasks, last>>

\* the store as one value, for the operators below
DB == [teams |-> teams, matches |-> matches, predictions |-> predictions,
       settings |-> settings, eloLog |-> eloLog, model |-> model]

EmptyDB == [teams |-> <<>>, matches |-> <<>>, predictions |-> {},
            settings |-> [last_fetched_date |-> NULL, historical_matches_processed |-> FALSE],
            eloLog |-> <<>>, model |-> "ok"]

(* --------------------------- rating engine ---------------------------- *)

\* 10000 / (1 + 10^(d/400)) for d = -400, -390, ..., 400
LogisticTable ==
    << 9091, 9042, 8991, 8938, 8882, 8823, 8762, 8698, 8632, 8563, 8490,
       8415, 8337, 8255, 8171, 8083, 7992, 7898, 7801, 7701, 7597, 7491,
       7381, 7268, 7153, 7034, 6912, 6788, 6661, 6532, 6401, 6267, 6131,
       5994, 5855, 5715, 5573, 5431, 5288, 5144, 5000, 4856, 4712, 4569,
       4427, 4285, 4145, 4006, 3869, 3733, 3599, 3468, 3339, 3212, 3088,
       2966, 2847, 2732, 2619, 2509, 2403, 2299, 2199, 2102, 2008, 1917,
       1829, 1745, 1663, 1585, 1510, 1437, 1368, 1302, 1238, 1177, 1118,
       1062, 1009, 958, 909 >>

\* home_expected = 1 / (1 + 10 ** ((away_elo - (home_elo + HOME_ADVANTAGE)) / 400))
home_expected(home_elo, away_elo) ==
    LET d    == away_elo - (home_elo + HOME_ADVANTAGE * ELO_SCALE)
        step == 10 * ELO_SCALE
        lo   == -400 * ELO_SCALE
        hi   == 400 * ELO_SCALE
        c    == IF d < lo THEN lo ELSE IF d > hi THEN hi ELSE d
        i    == (c - lo) \div step
        r    == (c - lo) % step
    IN  IF i + 1 >= Len(LogisticTable)
        THEN LogisticTable[Len(LogisticTable)]
        ELSE LogisticTable[i + 1]
             + ((LogisticTable[i + 2] - LogisticTable[i + 1]) * r) \div step

\* actual score of the home side: 1 for a win, 0.5 for a draw, 0 for a loss
home_actual(result) ==
    IF result = HOME_WIN THEN ELO_SCALE
    ELSE IF result = DRAW THEN ELO_SCALE \div 2
    ELSE 0

\* a draw scored as a win of the away side
away_actual_noDraw(result) ==
    IF result = HOME_WIN THEN 0 ELSE ELO_SCALE

\* actual score of the away side
away_actual(result) ==
    IF result = HOME_WIN THEN 0
    ELSE IF result = DRAW THEN ELO_SCALE \div 2
    ELSE ELO_SCALE

new_home_elo(home_elo, away_elo, result) ==
    home_elo + K_FACTOR * (home_actual(result) - home_expected(home_elo, away_elo))

new_away_elo(home_elo, away_elo, result) ==
    away_elo + K_FACTOR * (away_actual(result)
                           - (ELO_SCALE - home_expected(home_elo, away_elo)))

\* a rating update that also writes the away side's new rating to every other team
update_elo_ratings_everyTeam(db, match_id) ==
    IF match_id \notin 1..Len(db.matches)
    THEN [db |-> db, raised |-> TRUE]
    ELSE LET m  == db.matches[match_id]
             h  == m.home_team_id
             a  == m.away_team_id
             he == db.teams[h].elo
             ae == db.teams[a].elo
         IN  [db |-> [db EXCEPT
                         !.teams = [i \in 1..Len(db.teams) |->
                                       IF i = h
                                       THEN [db.teams[i] EXCEPT
                                                !.elo = new_home_elo(he, ae, m.result),
                                                !.updated_at = Today]
                                       ELSE [db.teams[i] EXCEPT
                                                !.elo = new_away_elo(he, ae, m.result),
                                                !.updated_at = Today]],
                         !.eloLog = Append(db.eloLog, match_id)],
              raised |-> FALSE]

\* Database.update_elo_ratings(match_id): [db, raised]
update_elo_ratings(db, match_id) ==
    IF match_id \notin 1..Len(db.matches)
    THEN [db |-> db, raised |-> TRUE]
    ELSE LET m  == db.matches[match_id]
             h  == m.home_team_id
             a  == m.away_team_id
             he == db.teams[h].elo
             ae == db.teams[a].elo
             t1 == [db.teams EXCEPT ![h].elo = new_home_elo(he, ae, m.result),
                                    ![h].updated_at = Today]
             t2 == [t1 EXCEPT ![a].elo = new_away_elo(he, ae, m.result),
                              ![a].updated_at = Today]
         IN  [db |-> [db EXCEPT !.teams = t2, !.eloLog = Append(db.eloLog, match_id)],
              raised |-> FALSE]

(* ------------------------- Database.add_new_match --------------------- *)

\* SELECT team_id FROM teams WHERE api_team_id = ? (fetchone: the first row, 0 when none)
team_by_api_id(ts, api_id) ==
    IF \E i \in 1..Len(ts) : ts[i].api_team_id # NULL /\ ts[i].api_team_id = api_id
    THEN CHOOSE i \in 1..Len(ts) :
             /\ ts[i].api_team_id # NULL /\ ts[i].api_team_id = api_id
             /\ \A j \in 1..(i - 1) : ~(ts[j].api_team_id # NULL /\ ts[j].api_team_id = api_id)
    ELSE 0

\* SELECT team_id FROM teams WHERE name = ? (fetchone: the first row, 0 when none)
team_by_name(ts, name) ==
    IF \E i \in 1..Len(ts) : ts[i].name = name
    THEN CHOOSE i \in 1..Len(ts) :
             ts[i].name = name /\ \A j \in 1..(i - 1) : ts[j].name # name
    ELSE 0

\* lookup by api id, then by name (the api id is written onto the row found),
\* then INSERT with rating 1500.0: [teams, team_id]
resolve_team_byIdOnly(ts, api_id, name) ==
    LET byId == team_by_api_id(ts, api_id)
    IN  IF byId # 0 THEN [teams |-> ts, team_id |-> byId]
        ELSE [teams |-> Append(ts, [api_team_id |-> api_id, name |-> name,
                                    elo |-> DEFAULT_ELO * ELO_SCALE, updated_at |-> Today]),
              team_id |-> Len(ts) + 1]

resolve_team(ts, api_id, name) ==
    LET byId   == team_by_api_id(ts, api_id)
        byName == team_by_name(ts, name)
    IN  IF byId # 0 THEN [teams |-> ts, team_id |-> byId]
        ELSE IF byName # 0
        THEN [teams |-> [ts EXCEPT ![byName].api_team_id = api_id], team_id |-> byName]
        ELSE [teams |-> Append(ts, [api_team_id |-> api_id, name |-> name,
                                    elo |-> DEFAULT_ELO * ELO_SCALE, updated_at |-> Today]),
              team_id |-> Len(ts) + 1]

\* the rows the duplicate query reads: same api id (when the record has one),
\* or same (date, home_team_id, away_team_id)
existing_match_apiOnly(ms, md, home_team_id, away_team_id) ==
    \E i \in 1..Len(ms) :
        md.match_id # NULL /\ ms[i].api_match_id # NULL /\ ms[i].api_match_id = md.match_id

existing_match(ms, md, home_team_id, away_team_id) ==
    \E i \in 1..Len(ms) :
        \/ md.match_id # NULL /\ ms[i].api_match_id # NULL /\ ms[i].api_match_id = md.match_id
        \/ /\ ms[i].date = md.date
           /\ ms[i].home_team_id = home_team_id
           /\ ms[i].away_team_id = away_team_id

\* the INSERT violates the schema: api_match_id UNIQUE, the partial unique index
\* unique_match_constraint (rows WHERE api_match_id IS NULL), NOT NULL scores
integrity_error(ms, row) ==
    \/ row.home_goals = NoScore
    \/ row.away_goals = NoScore
    \/ \E i \in 1..Len(ms) :
          \/ row.api_match_id # NULL /\ ms[i].api_match_id = row.api_match_id
          \/ /\ row.api_match_id = NULL
             /\ ms[i].api_match_id = NULL
             /\ ms[i].date = row.date
             /\ ms[i].home_team_id = row.home_team_id
             /\ ms[i].away_team_id = row.away_team_id

\* the row add_new_match inserts for match_data md
new_row(md, home_team_id, away_team_id) ==
    [api_match_id |-> md.match_id, home_team_id |-> home_team_id,
     away_team_id |-> away_team_id, date |-> md.date,
     home_goals |-> md.home_goals, away_goals |-> md.away_goals, result |-> md.result]

\* the insert is refused: the duplicate query found a row, or IntegrityError
rejects_insert_never(ms, md, home_team_id, away_team_id) ==
    FALSE

rejects_insert(ms, md, home_team_id, away_team_id) ==
    \/ existing_match(ms, md, home_team_id, away_team_id)
    \/ integrity_error(ms, new_row(md, home_team_id, away_team_id))

\* the duplicate check and the INSERT, both teams resolved: [db, ret]
insert_match(db, md, home_team_id, away_team_id) ==
    IF rejects_insert(db.matches, md, home_team_id, away_team_id)
    THEN [db |-> db, ret |-> NULL]
    ELSE [db |-> [db EXCEPT !.matches =
                     Append(@, new_row(md, home_team_id, away_team_id))],
          ret |-> Len(db.matches) + 1]

\* the away team resolved on the teams table the home lookup left
resolve_away(db, md, home) ==
    [home_team_id |-> home.team_id,
     away |-> resolve_team(home.teams, md.away_team_id, md.away_team_name)]

\* both teams resolved: the team rows written are part of the store from here on
with_teams(db, md, both) ==
    insert_match([db EXCEPT !.teams = both.away.teams], md,
                 both.home_team_id, both.away.team_id)

\* Database.add_new_match(match_data): [db, ret]; ret is the new match_id, NULL for None.
\* The team rows written before a refused insert are committed with the connection.
add_new_match(db, md) ==
    with_teams(db, md,
               resolve_away(db, md,
                            resolve_team(db.teams, md.home_team_id, md.home_team_name)))

(* ------------------------ feature computation ------------------------- *)

\* the parameters Database.get_match_features declares (besides self)
get_match_features_params_withDate ==
    {"home_team_api_id", "away_team_api_id", "match_date"}

get_match_features_params ==
    {"home_team_api_id", "away_team_api_id"}

\* Python's call binding: a keyword the callee does not declare raises TypeError
call_raises_TypeError(params, keywords) ==
    ~(keywords \subseteq params)

\* "rn <= 5": the aggregates read at most the 5 most recent qualifying rows
WINDOW == 5
\* the two rates and the two averages are fractions with a denominator of at most
\* WINDOW; they are kept exactly, as multiples of 1/RATE_SCALE
RATE_SCALE == 60

\* ROW_NUMBER() OVER (ORDER BY date DESC) ... WHERE rn <= 5 (SQL leaves ties unordered)
last_5(ms, ids) ==
    IF Cardinality(ids) <= WINDOW THEN ids
    ELSE CHOOSE W \in SUBSET ids :
             /\ Cardinality(W) = WINDOW
             /\ \A i \in W, j \in ids \ W : ms[i].date >= ms[j].date

RECURSIVE sum_over(_, _)
\* SUM(value) over the rows ids; value is a function of the match id
sum_over(value, ids) ==
    IF ids = {} THEN 0
    ELSE LET i == CHOOSE x \in ids : TRUE
         IN  value[i] + sum_over(value, ids \ {i})

\* SELECT COUNT(*) FROM h2h_matches WHERE rn <= 5 AND result = 0
count_draws(ms, ids) ==
    Cardinality({i \in last_5(ms, ids) : ms[i].result = DRAW})

\* SUM(CASE WHEN result = 0 THEN 1 ELSE 0 END) / NULLIF(COUNT(*), 0), "or 0" when NULL
draw_tendency(ms, ids) ==
    IF ids = {} THEN 0
    ELSE (count_draws(ms, ids) * RATE_SCALE) \div Cardinality(last_5(ms, ids))

\* AVG(home_goals - away_goals) over the window, 0 when NULL
avg_home_gd(ms, ids) ==
    IF ids = {} THEN 0
    ELSE (sum_over([i \in 1..Len(ms) |-> ms[i].home_goals - ms[i].away_goals],
                   last_5(ms, ids)) * RATE_SCALE) \div Cardinality(last_5(ms, ids))

\* AVG(away_goals - home_goals) over the window, 0 when NULL
avg_away_gd(ms, ids) ==
    IF ids = {} THEN 0
    ELSE (sum_over([i \in 1..Len(ms) |-> ms[i].away_goals - ms[i].home_goals],
                   last_5(ms, ids)) * RATE_SCALE) \div Cardinality(last_5(ms, ids))

\* what the feature methods return when they return None
NoFeatures ==
    [found |-> FALSE, raised |-> FALSE, Home_Elo |-> 0, Away_Elo |-> 0,
     H2H_Draws_Last_5 |-> 0, Draw_Tendency_Home |-> 0, Draw_Tendency_Away |-> 0,
     Avg_Home_GD_Last_5 |-> 0, Avg_Away_GD_Last_5 |-> 0, Elo_Difference |-> 0]

\* the feature dictionary built from the two ratings and the five row sets
feature_dict(ms, home_elo, away_elo, h2h, home_rows, away_rows) ==
    [found |-> TRUE, raised |-> FALSE, Home_Elo |-> home_elo, Away_Elo |-> away_elo,
     H2H_Draws_Last_5 |-> count_draws(ms, h2h),
     Draw_Tendency_Home |-> draw_tendency(ms, home_rows),
     Draw_Tendency_Away |-> draw_tendency(ms, away_rows),
     Avg_Home_GD_Last_5 |-> avg_home_gd(ms, home_rows),
     Avg_Away_GD_Last_5 |-> avg_away_gd(ms, away_rows),
     Elo_Difference |-> home_elo - away_elo]

\* WHERE (home_team_id = ? AND away_team_id = ?) OR (home_team_id = ? AND away_team_id = ?)
h2h_rows_oneRole(ms, h, a) ==
    {i \in 1..Len(ms) :
        ms[i].home_team_id = h /\ ms[i].away_team_id = a}

h2h_rows(ms, h, a) ==
    {i \in 1..Len(ms) :
        \/ ms[i].home_team_id = h /\ ms[i].away_team_id = a
        \/ ms[i].home_team_id = a /\ ms[i].away_team_id = h}

\* the role left out of the query: every match of the team
home_rows_of_anyRole(ms, h) ==
    {i \in 1..Len(ms) :
        ms[i].home_team_id = h \/ ms[i].away_team_id = h}

\* WHERE home_team_id = ?
home_rows_of(ms, h) ==
    {i \in 1..Len(ms) :
        ms[i].home_team_id = h}

\* WHERE away_team_id = ?
away_rows_of(ms, a) ==
    {i \in 1..Len(ms) :
        ms[i].away_team_id = a}

\* Database.get_match_features(home_team_api_id, away_team_api_id): the feature
\* dictionary, or NoFeatures for None when a team is unknown
get_match_features_defaulting(db, home_team_api_id, away_team_api_id) ==
    feature_dict(db.matches, DEFAULT_ELO * ELO_SCALE, DEFAULT_ELO * ELO_SCALE, {}, {}, {})

get_match_features(db, home_team_api_id, away_team_api_id) ==
    LET h == team_by_api_id(db.teams, home_team_api_id)
        a == team_by_api_id(db.teams, away_team_api_id)
    IN  IF h = 0 \/ a = 0 THEN NoFeatures
        ELSE feature_dict(db.matches, db.teams[h].elo, db.teams[a].elo,
                          h2h_rows(db.matches, h, a),
                          home_rows_of(db.matches, h), away_rows_of(db.matches, a))

(* ------------------- Database.get_match_features2 --------------------- *)

\* "if match_date:" appends ' AND date < ?' to a query
before_cutoff(m, match_date) == match_date = NULL \/ m.date < match_date

\* the h2h query with ' AND date < ?' appended after the OR of the two pairings:
\* AND binds tighter than OR, the cutoff filters the second pairing only
h2h_rows2(ms, h, a, match_date) ==
    {i \in 1..Len(ms) :
        \/ ms[i].home_team_id = h /\ ms[i].away_team_id = a
        \/ /\ ms[i].home_team_id = a /\ ms[i].away_team_id = h
           /\ before_cutoff(ms[i], match_date)}

\* WHERE home_team_id = ? [AND date < ?]
home_rows2(ms, h, match_date) ==
    {i \in 1..Len(ms) :
        ms[i].home_team_id = h /\ before_cutoff(ms[i], match_date)}

\* WHERE away_team_id = ? [AND date < ?]
away_rows2(ms, a, match_date) ==
    {i \in 1..Len(ms) :
        ms[i].away_team_id = a /\ before_cutoff(ms[i], match_date)}

\* SELECT current_elo_rating FROM teams WHERE team_id = ? [AND updated_at < ?]
\* returns a row
elo_row_found(team, match_date) == match_date = NULL \/ team.updated_at < match_date

\* Database.get_match_features2(home_team_api_id, away_team_api_id, match_date).
\* "cursor.fetchone()[0] if cursor.fetchone() else 1500.0" tests the only row and
\* then subscripts the None of the second fetch: TypeError whenever the row exists.
get_match_features2(db, home_team_api_id, away_team_api_id, match_date) ==
    LET h == team_by_api_id(db.teams, home_team_api_id)
        a == team_by_api_id(db.teams, away_team_api_id)
    IN  IF h = 0 \/ a = 0 THEN NoFeatures
        ELSE IF \/ elo_row_found(db.teams[h], match_date)
                \/ elo_row_found(db.teams[a], match_date)
        THEN [NoFeatures EXCEPT !.raised = TRUE]
        ELSE feature_dict(db.matches, DEFAULT_ELO * ELO_SCALE, DEFAULT_ELO * ELO_SCALE,
                          h2h_rows2(db.matches, h, a, match_date),
                          home_rows2(db.matches, h, match_date),
                          away_rows2(db.matches, a, match_date))

(* --------------------------- prediction model ------------------------- *)

\* what ModelService.predict returns when the model call fails
FallbackProbs == [home_win |-> 4000, draw |-> 3000, away_win |-> 3000]

\* self.model.predict_proba(X)[0]: the model is opaque; its answer is a triple that
\* depends on the features only
predict_proba(features) ==
    IF features.Elo_Difference >= 0
    THEN [home_win |-> 5000, draw |-> 2500, away_win |-> 2500]
    ELSE [home_win |-> 3000, draw |-> 2500, away_win |-> 4500]

\* ModelService.predict: the answer of the model, and the fallback from its
\* "except Exception" when the call of the model raises
predict(m, features) ==
    IF m = "failing" THEN FallbackProbs ELSE predict_proba(features)

\* INSERT OR REPLACE in the place of INSERT OR IGNORE
insert_match_prediction_replacing(db, match_id, probs) ==
    [db EXCEPT !.predictions = {p \in @ : p.match_id # match_id}
                                   \cup {[match_id |-> match_id, probs |-> probs]}]

\* Database.insert_match_prediction: INSERT OR IGNORE, match_id UNIQUE
insert_match_prediction(db, match_id, probs) ==
    IF \E p \in db.predictions : p.match_id = match_id
    THEN db
    ELSE [db EXCEPT !.predictions = @ \cup {[match_id |-> match_id, probs |-> probs]}]

(* ------------------------- main.predict_match_new --------------------- *)

\* no probabilities: the request ended in an HTTPException
NoProbs == [home_win |-> 0, draw |-> 0, away_win |-> 0]

\* SELECT match_id FROM matches WHERE home_team_id = (...) AND away_team_id = (...)
\* AND date >= today ORDER BY date ASC LIMIT 1: the match id, NULL when no row
upcoming_match(db, home_team_id, away_team_id) ==
    LET h    == team_by_api_id(db.teams, home_team_id)
        a    == team_by_api_id(db.teams, away_team_id)
        rows == {i \in 1..Len(db.matches) :
                    /\ db.matches[i].home_team_id = h
                    /\ db.matches[i].away_team_id = a
                    /\ db.matches[i].date >= Today}
    IN  IF rows = {} THEN NULL
        ELSE CHOOSE i \in rows : \A j \in rows : db.matches[i].date <= db.matches[j].date

\* the probabilities are stored for the upcoming match of the two teams, if any
store_for_upcoming(db, match_id, probs) ==
    IF match_id = NULL THEN db ELSE insert_match_prediction(db, match_id, probs)

\* POST /predict/ once the features are there: [db, status, probs, features].
\* The HTTPException(404) raised for features None is caught by the handler's own
\* except Exception and leaves as status 500.
respond(db, home_team_id, away_team_id, features) ==
    IF ~features.found
    THEN [db |-> db, status |-> 500, probs |-> NoProbs, features |-> features]
    ELSE [db |-> store_for_upcoming(db, upcoming_match(db, home_team_id, away_team_id),
                                    predict(db.model, features)),
          status |-> 200, probs |-> predict(db.model, features), features |-> features]

\* POST /predict/ (main.predict_match_new)
predict_match_new(db, home_team_id, away_team_id) ==
    respond(db, home_team_id, away_team_id,
            get_match_features(db, home_team_id, away_team_id))

(* ------------------- MatchUpdater.process_new_matches ----------------- *)

\* datetime.fromisoformat / strftime('%Y-%m-%d') on a date string of the batch
date_parses(date) == date # BadDate

\* the result column computed from the two scores
result_of(home_goals, away_goals) ==
    IF home_goals > away_goals THEN HOME_WIN
    ELSE IF home_goals = away_goals THEN DRAW
    ELSE AWAY_WIN

\* the match_data dictionary built for add_new_match
match_data_of(match) ==
    [match_id |-> match.match_id,
     home_team_id |-> match.home_team.id, away_team_id |-> match.away_team.id,
     home_team_name |-> match.home_team.name, away_team_name |-> match.away_team.name,
     date |-> match.date,
     home_goals |-> IF match.home_goals # NoScore THEN match.home_goals ELSE 0,
     away_goals |-> IF match.away_goals # NoScore THEN match.away_goals ELSE 0,
     result |-> result_of(match.home_goals, match.away_goals)]

\* SELECT match_id FROM matches WHERE api_match_id = ?
api_match_id_stored(ms, api_match_id) ==
    \E i \in 1..Len(ms) : ms[i].api_match_id # NULL /\ ms[i].api_match_id = api_match_id

\* the status gate of the loop: only FINISHED records go on
is_finished_any(match) == TRUE

is_finished(match) == match.status = "FINISHED"

\* the prediction stored for a new row: none when features is None
store_prediction(db, match_id, features) ==
    IF features.found
    THEN insert_match_prediction(db, match_id, predict(db.model, features))
    ELSE db

\* after add_new_match returned r: count, store the prediction, update the ratings
after_add(r, features) ==
    IF r.ret = NULL
    THEN [db |-> r.db, outcome |-> "failed_to_add", added |-> 0]
    ELSE [db |-> update_elo_ratings(store_prediction(r.db, r.ret, features), r.ret).db,
          outcome |-> "added", added |-> 1]

\* the loop body after the features call returned
after_features(db, match, features) ==
    IF ~date_parses(match.date)
    THEN [db |-> db, outcome |-> "bad_date", added |-> 0]
    ELSE IF match.home_goals = NoScore \/ match.away_goals = NoScore
    THEN [db |-> db, outcome |-> "error", added |-> 0]            \* None > None
    ELSE after_add(add_new_match(db, match_data_of(match)), features)

\* one iteration of the loop body, for one record of the batch:
\* [db, outcome, added].  outcome names the log line the iteration ends with.
process_match(db, match) ==
    IF ~is_finished(match)
    THEN [db |-> db, outcome |-> "skipped_not_finished", added |-> 0]
    ELSE IF api_match_id_stored(db.matches, match.match_id)
    THEN [db |-> db, outcome |-> "already_exists", added |-> 0]
    ELSE IF call_raises_TypeError(get_match_features_params,
                                  {"home_team_api_id", "away_team_api_id", "match_date"})
    THEN [db |-> db, outcome |-> "error", added |-> 0]            \* TypeError
    ELSE after_features(db, match,
                        get_match_features(db, match.home_team.id, match.away_team.id))

\* the loop's running state after one more record: the store, added_count and
\* the outcome of each record handled so far
loop_step(acc, match) ==
    LET one == process_match(acc.db, match)
    IN  [db |-> one.db,
         added_count |-> acc.added_count + one.added,
         handled |-> Append(acc.handled, one.outcome)]

RECURSIVE loop_from(_, _)
\* for match in matches: ...
loop_from(acc, batch) ==
    IF batch = <<>> THEN acc
    ELSE loop_from(loop_step(acc, Head(batch)), Tail(batch))

\* MatchUpdater.process_new_matches(matches): [db, added_count, handled]
process_new_matches(db, batch) ==
    loop_from([db |-> db, added_count |-> 0, handled |-> <<>>], batch)

(* ------------------ Database.process_historical_matches --------------- *)

\* the orders ORDER BY date ASC may return the match ids in (ties are not ordered by SQL)
date_orders(ms) ==
    {o \in [1..Len(ms) -> 1..Len(ms)] :
        /\ \A i, j \in 1..Len(ms) : i # j => o[i] # o[j]
        /\ \A i, j \in 1..Len(ms) : i < j => ms[o[i]].date <= ms[o[j]].date}

\* UPDATE teams SET current_elo_rating = 1500.0
reset_elo_ratings_skipped(db) ==
    [db EXCEPT !.eloLog = <<>>]

reset_elo_ratings(db) ==
    [db EXCEPT !.teams = [i \in 1..Len(db.teams) |->
                             [db.teams[i] EXCEPT !.elo = DEFAULT_ELO * ELO_SCALE]],
               !.eloLog = <<>>]

RECURSIVE fold_matches(_, _)
\* update_elo_ratings for each match id of order, in order
fold_matches(db, order) ==
    IF order = <<>> THEN db
    ELSE fold_matches(update_elo_ratings(db, Head(order)).db, Tail(order))

\* MAX(date) over the matches table, NULL when it is empty
max_date(ms) ==
    IF ms = <<>> THEN NULL
    ELSE CHOOSE d \in {ms[i].date : i \in 1..Len(ms)} :
             \A i \in 1..Len(ms) : ms[i].date <= d

\* Database.process_historical_matches(), the rows read in the given order
process_historical_matches(db, order) ==
    LET db0 == reset_elo_ratings(db)
    IN  IF db.matches = <<>> THEN db0
        ELSE [fold_matches(db0, order)
                 EXCEPT !.settings.last_fetched_date = max_date(db.matches)]

\* Database._init_db from the test of the historical_matches_processed setting on
\* (the setting exists): while it is 'false', process_historical_matches and then
\* _mark_historical_matches_processed
init_db(db, order) ==
    IF db.settings.historical_matches_processed THEN db
    ELSE [process_historical_matches(db, order)
             EXCEPT !.settings.historical_matches_processed = TRUE]

(* ----------------------- the rebuild under errors ---------------------- *)

\* where an exception outside the per-match try may be raised after the reset:
\* at the SELECT of the matches, or after the loop (SELECT MAX(date) in
\* process_historical_matches, verify_elo_ratings in fix_elo_ratings)
Faults == {"none", "select", "after_loop"}

RECURSIVE fold_matches_except(_, _, _)
\* the loop over the match ids of order when update_elo_ratings raises for the
\* ids in errors: the except of the loop body logs the error and continues
fold_matches_except(db, order, errors) ==
    IF order = <<>> THEN db
    ELSE fold_matches_except(IF Head(order) \in errors
                             THEN db
                             ELSE update_elo_ratings(db, Head(order)).db,
                             Tail(order), errors)

\* Database.process_historical_matches() with those errors: [db, raised].
\* The reset is committed before anything else; conn.rollback() in the outer
\* except finds nothing uncommitted.
process_historical_matches_failing(db, order, errors, fault) ==
    IF fault = "select"
    THEN [db |-> reset_elo_ratings(db), raised |-> TRUE]
    ELSE IF db.matches = <<>>
    THEN [db |-> reset_elo_ratings(db), raised |-> FALSE]
    ELSE IF fault = "after_loop"
    THEN [db |-> fold_matches_except(reset_elo_ratings(db), order, errors),
          raised |-> TRUE]
    ELSE [db |-> [fold_matches_except(reset_elo_ratings(db), order, errors)
                     EXCEPT !.settings.last_fetched_date = max_date(db.matches)],
          raised |-> FALSE]

\* EloFixer.fix_elo_ratings() with those errors: [db, raised]. An exception that
\* leaves process_matches_chronologically or verify_elo_ratings restores the
\* backup copy of the database file and is re-raised.
fix_elo_ratings(db, order, errors, fault) ==
    IF fault # "none"
    THEN [db |-> db, raised |-> TRUE]
    ELSE [db |-> fold_matches_except(reset_elo_ratings(db), order, errors),
          raised |-> FALSE]

(* ------------------- FootballAPIService._make_request ------------------ *)

\* one retry more than the service is built with
max_retries_four == 3 + 1

\* self.max_retries, self.initial_retry_delay (seconds)
max_retries == 3
initial_retry_delay == 5
\* "min(wait_time, 60)": the ceiling of the wait after a 429, in seconds
MAX_WAIT == 60

\* wait_time = min(wait_time, 60)
capped_never(wait_time) ==
    wait_time

capped(wait_time) ==
    IF wait_time < MAX_WAIT THEN wait_time ELSE MAX_WAIT

\* self.initial_retry_delay * (2 ** attempt)
backoff(attempt) == initial_retry_delay * 2^attempt

\* the body of a 429 response is read: "suggested" when its message holds
\* 'Wait <seconds> seconds'; "unparseable" when json.loads, the split or float
\* raise JSONDecodeError, IndexError or ValueError; "null" when the message is not
\* a string, and .split raises AttributeError, which that except does not catch
wait_time_of(outcome, attempt) ==
    IF outcome.message = "suggested" THEN outcome.seconds ELSE backoff(attempt)

\* "except Exception" of the attempt: sleep and retry while attempts are left
on_exception(attempt) ==
    IF attempt < max_retries
    THEN [next |-> "retry", slept |-> backoff(attempt)]
    ELSE [next |-> "return_error", slept |-> 0]

\* one attempt of the loop, given what the upstream source did: what the loop does
\* next and the seconds slept before it
attempt_step(outcome, attempt) ==
    IF outcome.status = 200 THEN [next |-> "return_data", slept |-> 0]
    ELSE IF outcome.status = 429 /\ outcome.message = "null" THEN on_exception(attempt)
    ELSE IF outcome.status = 429
    THEN [next |-> "retry", slept |-> capped(wait_time_of(outcome, attempt))]
    ELSE IF outcome.status = NULL THEN on_exception(attempt)
    ELSE [next |-> "return_error", slept |-> 0]

RECURSIVE attempts_from(_, _, _)
\* for attempt in range(self.max_retries + 1), from attempt on: [kind, waits];
\* waits holds the seconds slept after each attempt made
attempts_from(attempt, outcomes, waits) ==
    IF attempt > max_retries THEN [kind |-> "error", waits |-> waits]
    ELSE LET step == attempt_step(outcomes[attempt + 1], attempt)
         IN  IF step.next = "retry"
             THEN attempts_from(attempt + 1, outcomes, Append(waits, step.slept))
             ELSE [kind |-> IF step.next = "return_data" THEN "data" ELSE "error",
                   waits |-> Append(waits, step.slept)]

\* FootballAPIService._make_request, given the outcome of each attempt
make_request(outcomes) == attempts_from(0, outcomes, <<>>)

(* -------------------- MatchUpdater.update_matches --------------------- *)

\* self.chunk_size
CHUNK_SIZE == 5
\* last_match_date - timedelta(days=10)
LOOKBACK_DAYS == 10
\* datetime(2024, 8, 1), as a day number of the model's calendar
SEASON_START == -4

\* MatchUpdater.get_last_match_date: SELECT MAX(date) FROM matches, NULL for None
get_last_match_date(ms) == max_date(ms)

\* the times of day a datetime of the model may carry: midnight (0), which is what
\* strptime('%Y-%m-%d') and datetime.combine(date, datetime.min.time()) give, and
\* a later time of the day (1), which datetime.now may give as well
TimesOfDay == {0, 1}

\* a datetime is a number of ticks, DAY of them to the day: timedelta(days=1)
DAY == Cardinality(TimesOfDay)

\* datetime(y, m, d): the day at midnight
at_midnight(day) == day * DAY

\* datetime.date(), and strftime('%Y-%m-%d'): the day of a datetime
date_of(datetime) == datetime \div DAY

\* datetime.now(timezone.utc) of the modelled run: a time of the day Today that is
\* not midnight
Now == at_midnight(Today) + (DAY - 1)

RECURSIVE get_date_chunks_inclusive(_, _, _)
\* the loop of _get_date_chunks entered also when current_start = end_date
get_date_chunks_inclusive(start_date, end_date, chunk_size) ==
    IF ~(start_date <= end_date) THEN <<>>
    ELSE LET chunk_end == IF start_date + chunk_size * DAY < end_date
                          THEN start_date + chunk_size * DAY ELSE end_date
         IN  <<[start |-> start_date, end |-> chunk_end]>>
             \o get_date_chunks_inclusive(chunk_end + DAY, end_date, chunk_size)

RECURSIVE get_date_chunks(_, _, _)
\* MatchUpdater._get_date_chunks: the (start, end) pairs of datetimes, in order
get_date_chunks(start_date, end_date, chunk_size) ==
    IF ~(start_date < end_date) THEN <<>>
    ELSE LET chunk_end == IF start_date + chunk_size * DAY < end_date
                          THEN start_date + chunk_size * DAY ELSE end_date
         IN  <<[start |-> start_date, end |-> chunk_end]>>
             \o get_date_chunks(chunk_end + DAY, end_date, chunk_size)

\* self.team_mapping: api_shortName -> database_team_name, from team_mappings.csv
team_mapping == [n \in {"B United"} |-> "B"]

\* self.team_mapping.get(shortName, shortName)
mapped_name(team) ==
    IF team.shortName \in DOMAIN team_mapping
    THEN team_mapping[team.shortName]
    ELSE team.shortName

\* datetime.fromisoformat(match['utcDate'].replace('Z', '+00:00')) raises ValueError
utcDate_parses(utcDate) == utcDate.day # BadDate

\* the record update_matches appends to all_matches for an upstream match
to_match(m) ==
    [match_id |-> m.id,
     date |-> m.utcDate.day,                      \* strftime('%Y-%m-%d')
     home_team |-> [id |-> m.homeTeam.id, name |-> mapped_name(m.homeTeam)],
     away_team |-> [id |-> m.awayTeam.id, name |-> mapped_name(m.awayTeam)],
     status |-> m.status,
     home_goals |-> m.score.home, away_goals |-> m.score.away]

RECURSIVE append_matches(_, _)
\* for match in matches: ... all_matches.append(match_data).  An unparseable
\* utcDate raises out of the loop, into the except of the sub-window's try.
append_matches(all_matches, ms) ==
    IF ms = <<>> THEN all_matches
    ELSE IF ~utcDate_parses(Head(ms).utcDate) THEN all_matches
    ELSE append_matches(Append(all_matches, to_match(Head(ms))), Tail(ms))

\* the body of the sub-window's try for the response data
fetch_chunk(all_matches, data) ==
    IF data.kind = "error" THEN all_matches
    ELSE IF data.kind = "matches" THEN append_matches(all_matches, data.matches)
    ELSE all_matches

RECURSIVE fetch_chunks_stopAtError(_, _)
\* for chunk_start, chunk_end in date_chunks: the responses are in chunk order
fetch_chunks_stopAtError(all_matches, responses) ==
    IF responses = <<>> \/ Head(responses).kind = "error" THEN all_matches
    ELSE fetch_chunks_stopAtError(fetch_chunk(all_matches, Head(responses)),
                                  Tail(responses))

RECURSIVE fetch_chunks(_, _)
fetch_chunks(all_matches, responses) ==
    IF responses = <<>> THEN all_matches
    ELSE fetch_chunks(fetch_chunk(all_matches, Head(responses)), Tail(responses))

\* await asyncio.sleep(6) at the end of the loop body
INTER_REQUEST_DELAY == 6

\* the seconds slept between the return of a sub-window's request and the next
\* iteration: "continue" on an error result leaves the body before the sleep;
\* a response without error, and an exception caught by the except, reach it
sleep_after(data) ==
    IF data.kind = "error" THEN 0 ELSE INTER_REQUEST_DELAY

\* the seconds slept after each sub-window of the pass, in chunk order
sleeps_of(responses) ==
    [c \in 1..Len(responses) |-> sleep_after(responses[c])]

\* Database.set_last_fetched_date
set_last_fetched_date_dropped(db, date) ==
    db

set_last_fetched_date(db, date) ==
    [db EXCEPT !.settings.last_fetched_date = date]

\* the parameters FootballAPIService._make_request declares without a default
make_request_required == {"endpoint"}

\* Python's call binding: a required parameter the call does not give raises TypeError
call_misses_argument(required, given) ==
    ~(required \subseteq given)

\* MatchUpdater._get_season_end_date, endDate being the end of the season at the
\* upstream source: "self.football_api._make_request()" gives no endpoint, and the
\* TypeError ends in "except Exception", which returns datetime.now
get_season_end_date(now, endDate) ==
    IF call_misses_argument(make_request_required, {}) THEN now ELSE at_midnight(endDate)

\* the lookback left out: the window starts at the season start whatever is stored
from_date_of_seasonStart(last_match_date) == SEASON_START

\* the first day of the fetch window
from_date_of(last_match_date) ==
    IF last_match_date # NULL THEN last_match_date - LOOKBACK_DAYS ELSE SEASON_START

\* from_date: that day at midnight
from_date(last_match_date) == at_midnight(from_date_of(last_match_date))

\* to_date = season_end_date + timedelta(days=1)
to_date(season_end_date) == season_end_date + DAY

\* the pass returns before fetching: the store is at or past the season's end, or
\* the window is empty
returns_early(last_match_date, season_end_date) ==
    \/ last_match_date # NULL /\ last_match_date >= date_of(season_end_date)
    \/ from_date(last_match_date) > to_date(season_end_date)

\* the fetch window <<from_date, to_date>> of a pass that got to compute it: one
\* that did not return at the first test of update_matches
window_of(last_match_date, season_end_date) ==
    IF last_match_date # NULL /\ last_match_date >= date_of(season_end_date)
    THEN <<>>
    ELSE <<from_date(last_match_date), to_date(season_end_date)>>

\* the sub-windows of the pass, none when it returns early
date_chunks_of(ms, season_end_date) ==
    IF returns_early(get_last_match_date(ms), season_end_date) THEN <<>>
    ELSE get_date_chunks(from_date(get_last_match_date(ms)), to_date(season_end_date),
                         CHUNK_SIZE)

\* the end of the pass: set_last_fetched_date(now.date()) on what ingestion left
finish_pass(r, all_matches, now) ==
    [db |-> set_last_fetched_date(r.db, now), added_count |-> r.added_count,
     handled |-> r.handled, all_matches |-> all_matches]

\* "if all_matches: self.process_new_matches(all_matches)", then the watermark
ingest_all(db, all_matches, now) ==
    IF all_matches = <<>>
    THEN finish_pass([db |-> db, added_count |-> 0, handled |-> <<>>], all_matches, now)
    ELSE finish_pass(process_new_matches(db, all_matches), all_matches, now)

\* MatchUpdater.update_matches, given the season's end and one response per sub-window
update_matches(db, season_end_date, now, responses) ==
    IF returns_early(get_last_match_date(db.matches), season_end_date)
    THEN [db |-> set_last_fetched_date(db, now), added_count |-> 0,
          handled |-> <<>>, all_matches |-> <<>>]
    ELSE ingest_all(db, fetch_chunks(<<>>, responses), now)

(* -------------------- MatchUpdater.schedule_updates -------------------- *)

\* the tasks an event loop may hold
TaskIds == {1, 2}

\* startup_event runs once and calls
\* asyncio.create_task(match_updater.schedule_updates()) once
created_tasks_twice == {1, 2}

created_tasks == {1}

\* await asyncio.sleep(60 * 60 * 24), and asyncio.sleep(86400) of the except
SLEEP_SECONDS == 86400

\* a task that was not created.  pc is the position of the coroutine: "created"
\* at "while True:" before its first update_matches, "fetch" in the loop over the
\* sub-windows with those of chunks left to request, "ingest" at "if all_matches:",
\* "watermark" at the set_last_fetched_date that follows, "returned" when
\* update_matches has returned, "sleep" in the asyncio.sleep of the loop;
\* written: this pass wrote last_fetched_date; failed: this pass ended in the
\* "except Exception" of update_matches, or its write of last_fetched_date
\* failed; slept: the seconds of the last sleep
NoTask ==
    [pc |-> "none", chunks |-> <<>>, all_matches |-> <<>>,
     written |-> FALSE, failed |-> FALSE, slept |-> 0]

NoTasks == [i \in TaskIds |-> NoTask]

new_task == [NoTask EXCEPT !.pc = "created"]

\* "except Exception as e" of update_matches: two log lines, then the call returns
on_pass_error_raising(task) ==
    [task EXCEPT !.pc = "terminated", !.failed = TRUE]

on_pass_error(task) ==
    [task EXCEPT !.pc = "returned", !.failed = TRUE]

\* the loop left at its first sub-window
at_loop_left(task) ==
    [task EXCEPT !.pc = "ingest"]

\* "for chunk_start, chunk_end in date_chunks:" goes on with the next sub-window,
\* or falls through to "if all_matches:" when none is left
at_loop(task) ==
    [task EXCEPT !.pc = IF task.chunks = <<>> THEN "ingest" ELSE "fetch"]

\* self.db.set_last_fetched_date(now.date()), after which update_matches returns.
\* Database.set_last_fetched_date catches an error of the store itself and logs
\* it: the caller goes on as after a write
write_watermark(db, task, now, write_fails) ==
    IF write_fails
    THEN [db |-> db, task |-> [task EXCEPT !.pc = "returned", !.failed = TRUE]]
    ELSE [db |-> set_last_fetched_date(db, now),
          task |-> [task EXCEPT !.pc = "returned", !.written = TRUE]]

\* what get_last_match_date returns: None also when the store cannot be read
\* (its "except Exception" returns None)
last_match_date_read(db, read_fails) ==
    IF read_fails THEN NULL ELSE get_last_match_date(db.matches)

\* the task at the first line of update_matches: nothing collected, nothing written
at_call(task) ==
    [new_task EXCEPT !.slept = task.slept]

\* update_matches from its first line to the loop over the sub-windows; an early
\* return writes last_fetched_date
begin_pass(db, task, season_end_date, now, read_fails, write_fails) ==
    IF returns_early(last_match_date_read(db, read_fails), season_end_date)
    THEN write_watermark(db, at_call(task), now, write_fails)
    ELSE [db |-> db,
          task |-> at_loop([at_call(task) EXCEPT
                       !.chunks = get_date_chunks(
                                      from_date(last_match_date_read(db, read_fails)),
                                      to_date(season_end_date), CHUNK_SIZE)])]

\* one iteration of the loop over the sub-windows, _make_request having returned data
fetch_step(task, data) ==
    at_loop([task EXCEPT !.chunks = Tail(@),
                         !.all_matches = fetch_chunk(task.all_matches, data)])

\* "if all_matches: added_count = self.process_new_matches(all_matches)": the
\* first line of process_new_matches builds a ModelService, whose __init__ raises
\* when the model or the scaler does not load
ingest_step(db, task, model_loads) ==
    IF task.all_matches = <<>>
    THEN [db |-> db, task |-> [task EXCEPT !.pc = "watermark"]]
    ELSE IF ~model_loads
    THEN [db |-> db, task |-> on_pass_error(task)]
    ELSE [db |-> process_new_matches(db, task.all_matches).db,
          task |-> [task EXCEPT !.pc = "watermark"]]

\* self.db.set_last_fetched_date(now.date()) at the end of the pass
watermark_step(db, task, now, write_fails) ==
    write_watermark(db, task, now, write_fails)

\* update_matches has returned: await asyncio.sleep(60 * 60 * 24)
sleep_step(task) ==
    [task EXCEPT !.pc = "sleep", !.slept = SLEEP_SECONDS]

(* -------------------- init_db.import_historical_data ------------------- *)

\* pd.concat([HomeTeam column, AwayTeam column]).drop_duplicates(): the names of
\* q in order, each kept at its first occurrence
RECURSIVE drop_duplicates(_)
drop_duplicates(q) ==
    IF q = <<>> THEN <<>>
    ELSE LET front == drop_duplicates(SubSeq(q, 1, Len(q) - 1))
         IN  IF \E i \in 1..Len(front) : front[i] = q[Len(q)]
             THEN front
             ELSE Append(front, q[Len(q)])

\* the teams rows of a CSV: name only, the other columns at their defaults
\* (api_team_id NULL, current_elo_rating 1500.0, updated_at CURRENT_TIMESTAMP)
csv_teams(csv) ==
    LET names == drop_duplicates([i \in 1..Len(csv) |-> csv[i].HomeTeam]
                                 \o [i \in 1..Len(csv) |-> csv[i].AwayTeam])
    IN  [i \in 1..Len(names) |->
            [api_team_id |-> NULL, name |-> names[i],
             elo |-> DEFAULT_ELO * ELO_SCALE, updated_at |-> Today]]

\* df['FTR'].map({'H': -1, 'D': 0, 'A': 1})
ftr_result(ftr) ==
    IF ftr = "H" THEN HOME_WIN ELSE IF ftr = "D" THEN DRAW ELSE AWAY_WIN

\* the matches rows of a CSV, over the teams rows ts: no api_match_id
csv_matches(csv, ts) ==
    [i \in 1..Len(csv) |->
        [api_match_id |-> NULL,
         home_team_id |-> team_by_name(ts, csv[i].HomeTeam),
         away_team_id |-> team_by_name(ts, csv[i].AwayTeam),
         date |-> csv[i].Date, home_goals |-> csv[i].FTHG,
         away_goals |-> csv[i].FTAG, result |-> ftr_result(csv[i].FTR)]]

\* import_historical_data(csv_path) on a store whose id counters are fresh: the
\* three tables are emptied, teams and matches are loaded, the flag is 'false'
import_historical_data(db, csv) ==
    [db EXCEPT !.teams = csv_teams(csv),
               !.matches = csv_matches(csv, csv_teams(csv)),
               !.settings = [last_fetched_date |-> NULL,
                             historical_matches_processed |-> FALSE],
               !.eloLog = <<>>]

(* ----------------------------- the inputs ----------------------------- *)

T1 == [id |-> 1, name |-> "A"]
T2 == [id |-> 2, name |-> "B"]

\* the fixtures of the upstream source: home, away, date, full-time score.
\* F2 is played before F1.
F1 == [home |-> T1, away |-> T2, date |-> 2, home_goals |-> 2, away_goals |-> 0]
F2 == [home |-> T2, away |-> T1, date |-> 1, home_goals |-> 1, away_goals |-> 1]
Fixtures == {F1, F2}

ApiMatchIds == {1, 2}

\* the match_data dictionaries add_new_match is called with: a fixture under an
\* api match id, or without one (match_id NULL)
MatchDatas ==
    {[match_id |-> id, home_team_id |-> f.home.id, away_team_id |-> f.away.id,
      home_team_name |-> f.home.name, away_team_name |-> f.away.name,
      date |-> f.date, home_goals |-> f.home_goals, away_goals |-> f.away_goals,
      result |-> result_of(f.home_goals, f.away_goals)] :
        id \in ApiMatchIds \cup {NULL}, f \in Fixtures}

NoMatchData ==
    [match_id |-> NULL, home_team_id |-> NULL, away_team_id |-> NULL,
     home_team_name |-> "", away_team_name |-> "", date |-> NULL,
     home_goals |-> 0, away_goals |-> 0, result |-> 0]

\* a record of a batch, as update_matches builds it from an upstream match
RawMatch(id, status, date, f, hg, ag) ==
    [match_id |-> id, date |-> date, home_team |-> f.home, away_team |-> f.away,
     status |-> status, home_goals |-> hg, away_goals |-> ag]

\* the records a batch may hold: a finished fixture with its score, under an
\* external id and with match_id None, and a match that is not finished (no score yet)
RawMatches ==
    {RawMatch(1, "FINISHED", F1.date, F1, F1.home_goals, F1.away_goals),
     RawMatch(NULL, "FINISHED", F1.date, F1, F1.home_goals, F1.away_goals),
     RawMatch(2, "TIMED", F1.date, F1, NoScore, NoScore)}

Batches ==
    UNION {[1..n -> RawMatches] : n \in 1..MaxBatch}

ApiTeamIds == {T1.id, T2.id}

\* the match_date arguments of a feature query: None, or a day
Cutoffs == {NULL, 1, 2, 4}

\* the teams as the upstream source names them
U1 == [id |-> 1, shortName |-> "A"]
U2 == [id |-> 2, shortName |-> "B United"]

upstream_team(t) == IF t.id = U1.id THEN U1 ELSE U2

\* a match of an upstream response
UpstreamMatch(id, status, day, f, hg, ag) ==
    [id |-> id, utcDate |-> [day |-> day, hour |-> 15],
     homeTeam |-> upstream_team(f.home), awayTeam |-> upstream_team(f.away),
     status |-> status, score |-> [home |-> hg, away |-> ag]]

G1 == UpstreamMatch(1, "FINISHED", F1.date, F1, F1.home_goals, F1.away_goals)
G2 == UpstreamMatch(2, "FINISHED", F2.date, F2, F2.home_goals, F2.away_goals)
\* a match whose utcDate does not parse
B1 == UpstreamMatch(1, "FINISHED", BadDate, F1, F1.home_goals, F1.away_goals)

\* what _make_request returns for a sub-window: an error dictionary, a dictionary
\* without 'matches', or a dictionary with the matches
Responses ==
    {[kind |-> "error", matches |-> <<>>],
     [kind |-> "no_matches", matches |-> <<>>],
     [kind |-> "matches", matches |-> <<G1>>],
     [kind |-> "matches", matches |-> <<B1, G2>>],
     [kind |-> "matches", matches |-> <<G2, B1>>]}

\* the season end dates the upstream source may hold; the first lies before
\* SEASON_START (the upstream source still reports the season before)
SeasonEnds == {-6, 1, 4}

\* the historical CSV: one drawn match of A at home to B on day 1
HistoricalCsv ==
    <<[HomeTeam |-> "A", AwayTeam |-> "B", Date |-> 1, FTHG |-> 1, FTAG |-> 1, FTR |-> "D"]>>

\* teams as the upstream source may also present them: the name of T1 under
\* another id, and the id of T1 under another name
T3 == [id |-> 3, name |-> "A"]
T4 == [id |-> 1, name |-> "C"]

\* fixtures over those teams: each of them against T2, home and away, on two days
TeamFixtures ==
    {[home |-> h, away |-> a, date |-> d, home_goals |-> 2, away_goals |-> 0] :
        <<h, a>> \in ({T1, T3, T4} \X {T2}) \cup ({T2} \X {T1, T3, T4}),
        d \in {1, 2}}

\* the match_data dictionaries over TeamFixtures, without api match id
TeamMatchDatas ==
    {[match_id |-> NULL, home_team_id |-> f.home.id, away_team_id |-> f.away.id,
      home_team_name |-> f.home.name, away_team_name |-> f.away.name,
      date |-> f.date, home_goals |-> f.home_goals, away_goals |-> f.away_goals,
      result |-> result_of(f.home_goals, f.away_goals)] : f \in TeamFixtures}

\* two more teams, and fixtures of which two are played on the same day
T5 == [id |-> 5, name |-> "D"]
T6 == [id |-> 6, name |-> "E"]

SameDayFixtures ==
    {[home |-> T1, away |-> T2, date |-> 1, home_goals |-> 1, away_goals |-> 1],
     [home |-> T5, away |-> T6, date |-> 1, home_goals |-> 2, away_goals |-> 0],
     [home |-> T2, away |-> T5, date |-> 2, home_goals |-> 0, away_goals |-> 1]}

\* the match_data dictionaries over SameDayFixtures, without api match id
SameDayMatchDatas ==
    {[match_id |-> NULL, home_team_id |-> f.home.id, away_team_id |-> f.away.id,
      home_team_name |-> f.home.name, away_team_name |-> f.away.name,
      date |-> f.date, home_goals |-> f.home_goals, away_goals |-> f.away_goals,
      result |-> result_of(f.home_goals, f.away_goals)] : f \in SameDayFixtures}

\* a fixture played today, and the records add_new_match may be called with for
\* it and for F2
F3 == [home |-> T1, away |-> T2, date |-> Today, home_goals |-> 1, away_goals |-> 0]

RecentMatchDatas ==
    {[match_id |-> id, home_team_id |-> f.home.id, away_team_id |-> f.away.id,
      home_team_name |-> f.home.name, away_team_name |-> f.away.name,
      date |-> f.date, home_goals |-> f.home_goals, away_goals |-> f.away_goals,
      result |-> result_of(f.home_goals, f.away_goals)] :
        id \in {NULL, 1}, f \in {F2, F3}}

\* an api team id no teams row carries
UnknownTeamId == 9

\* the team ids a /predict/ request may name
RequestTeamIds == ApiTeamIds \cup {UnknownTeamId}

\* what a stored match between T1 and T2 may have been, and a match of T1 with
\* a third team
MeetingKinds ==
    {[home |-> T1, away |-> T2, home_goals |-> 1, away_goals |-> 1],
     [home |-> T1, away |-> T2, home_goals |-> 2, away_goals |-> 0],
     [home |-> T2, away |-> T1, home_goals |-> 0, away_goals |-> 0],
     [home |-> T5, away |-> T1, home_goals |-> 1, away_goals |-> 1]}

\* a history of up to MaxMeetings such matches, in the order they were stored
Histories == UNION {[1..n -> MeetingKinds] : n \in 0..MaxMeetings}

\* the record of the k-th match of history h; the matches were stored in the order
\* they were played, or in the opposite order
history_md(h, k, newest_first) ==
    [match_id |-> NULL, home_team_id |-> h[k].home.id, away_team_id |-> h[k].away.id,
     home_team_name |-> h[k].home.name, away_team_name |-> h[k].away.name,
     date |-> IF newest_first THEN Len(h) + 1 - k ELSE k,
     home_goals |-> h[k].home_goals, away_goals |-> h[k].away_goals,
     result |-> result_of(h[k].home_goals, h[k].away_goals)]

RECURSIVE store_after(_, _, _)
\* the store after add_new_match was called for the first n matches of history h
store_after(h, n, newest_first) ==
    IF n = 0 THEN EmptyDB
    ELSE add_new_match(store_after(h, n - 1, newest_first),
                       history_md(h, n, newest_first)).db

\* what the upstream source may do with one attempt of a request: answer 200,
\* answer 429 with a message that suggests a wait (of 3 or of 120 seconds), with a
\* body that suggests none, or with a message that is no string, answer another
\* status, or fail (status NULL: the session raises)
Outcomes ==
    {[status |-> 200, message |-> "", seconds |-> 0],
     [status |-> 429, message |-> "suggested", seconds |-> 3],
     [status |-> 429, message |-> "suggested", seconds |-> 120],
     [status |-> 429, message |-> "unparseable", seconds |-> 0],
     [status |-> 429, message |-> "null", seconds |-> 0],
     [status |-> 500, message |-> "", seconds |-> 0],
     [status |-> NULL, message |-> "", seconds |-> 0]}

(* ------------------------------ actions ------------------------------- *)

Call(op, md, batch, ret, handled, raised) ==
    [op |-> op, md |-> md, batch |-> batch, ret |-> ret,
     handled |-> handled, raised |-> raised]

\* the tables take the values of db
Write(db) ==
    /\ teams' = db.teams
    /\ matches' = db.matches
    /\ predictions' = db.predictions
    /\ settings' = db.settings
    /\ eloLog' = db.eloLog
    /\ model' = db.model

Store(db) ==
    /\ Write(db)
    /\ tasks' = tasks

Init ==
    /\ teams = EmptyDB.teams
    /\ matches = EmptyDB.matches
    /\ predictions = EmptyDB.predictions
    /\ settings = EmptyDB.settings
    /\ eloLog = EmptyDB.eloLog
    /\ model = EmptyDB.model
    /\ tasks = NoTasks
    /\ last = Call("init", NoMatchData, <<>>, NULL, <<>>, FALSE)

\* a caller invokes Database.add_new_match
AddNewMatch ==
    \E md \in MatchDatas :
        LET r == add_new_match(DB, md)
        IN  /\ Len(r.db.matches) <= MaxMatches
            /\ Store(r.db)
            /\ last' = Call("add_new_match", md, <<>>, r.ret, <<>>, FALSE)

\* a caller invokes Database.update_elo_ratings
UpdateEloRatings ==
    \E match_id \in 1..(Len(matches) + 1) :
        LET r == update_elo_ratings(DB, match_id)
        IN  /\ Len(eloLog) < MaxElo
            /\ Store(r.db)
            /\ last' = Call("update_elo_ratings", NoMatchData, <<>>, match_id, <<>>, r.raised)

\* Database.process_historical_matches (Database.__init__ while the
\* historical_matches_processed setting is 'false')
ProcessHistoricalMatches ==
    \E order \in date_orders(matches) :
        /\ Len(matches) <= MaxElo
        /\ Store(process_historical_matches(DB, order))
        /\ last' = Call("process_historical_matches", NoMatchData, <<>>, NULL, <<>>, FALSE)

\* MatchUpdater.process_new_matches on a batch
ProcessNewMatches ==
    \E batch \in Batches :
        LET r == process_new_matches(DB, batch)
        IN  /\ Len(r.db.matches) <= MaxMatches
            /\ Len(r.db.eloLog) <= MaxElo
            /\ Store(r.db)
            /\ last' = Call("process_new_matches", NoMatchData, batch,
                            r.added_count, r.handled, FALSE)

\* a caller invokes Database.get_match_features2
GetMatchFeatures2 ==
    \E h \in ApiTeamIds, a \in ApiTeamIds, match_date \in Cutoffs :
        /\ h # a
        /\ UNCHANGED <<teams, matches, predictions, settings, eloLog, model, tasks>>
        /\ last' = [op |-> "get_match_features2", home_team_api_id |-> h,
                    away_team_api_id |-> a, match_date |-> match_date,
                    features |-> get_match_features2(DB, h, a, match_date)]

\* one synchronization pass: MatchUpdater.update_matches
UpdateMatches ==
    \E endDate \in SeasonEnds :
        \E responses \in [1..Len(date_chunks_of(matches, get_season_end_date(Now, endDate)))
                              -> Responses] :
            LET season_end_date == get_season_end_date(Now, endDate)
                r == update_matches(DB, season_end_date, Today, responses)
            IN  /\ Len(r.db.matches) <= MaxMatches
                /\ Len(r.db.eloLog) <= MaxElo
                /\ Store(r.db)
                /\ last' = [op |-> "update_matches", season_end_date |-> season_end_date,
                            responses |-> responses, batch |-> r.all_matches,
                            ret |-> r.added_count, handled |-> r.handled,
                            sleeps |-> sleeps_of(responses)]

Next ==
    \/ AddNewMatch
    \/ UpdateEloRatings
    \/ ProcessHistoricalMatches
    \/ ProcessNewMatches

Spec == Init /\ [][Next]_vars

\* the store written through add_new_match, read through get_match_features2
NextFeatures ==
    \/ AddNewMatch
    \/ GetMatchFeatures2

SpecFeatures == Init /\ [][NextFeatures]_vars

\* init_db.py on a fresh database file: import_historical_data
ImportHistoricalData ==
    /\ teams = <<>> /\ matches = <<>>
    /\ Store(import_historical_data(DB, HistoricalCsv))
    /\ last' = Call("import_historical_data", NoMatchData, <<>>, NULL, <<>>, FALSE)

\* a caller invokes Database.add_new_match with a record over TeamFixtures
AddNewMatchOfTeams ==
    \E md \in TeamMatchDatas :
        LET r == add_new_match(DB, md)
        IN  /\ Len(r.db.matches) <= MaxMatches
            /\ Store(r.db)
            /\ last' = Call("add_new_match", md, <<>>, r.ret, <<>>, FALSE)

\* the store loaded by init_db.py, then written through add_new_match
NextTeams ==
    \/ ImportHistoricalData
    \/ AddNewMatchOfTeams

SpecTeams == Init /\ [][NextTeams]_vars

\* a caller invokes Database.add_new_match with a record over SameDayFixtures
AddNewMatchSameDay ==
    \E md \in SameDayMatchDatas :
        LET r == add_new_match(DB, md)
        IN  /\ Len(r.db.matches) <= MaxMatches
            /\ Store(r.db)
            /\ last' = Call("add_new_match", md, <<>>, r.ret, <<>>, FALSE)

\* the record of a rebuild: the order the SELECT returned the match ids in, the
\* errors met, whether an exception left the call, and whether the call repeats
\* the one before it (same operation, same rows in the same order, both without error)
RebuildCall(op, order, errors, fault, raised) ==
    [op |-> op, order |-> order, errors |-> errors, fault |-> fault, raised |-> raised,
     repeat |-> /\ last.op = op
                /\ last.order = order
                /\ last.errors = {} /\ last.fault = "none"
                /\ errors = {} /\ fault = "none"]

\* Database.process_historical_matches, errors included (with no match stored the
\* call returns before the statements after the loop)
ProcessHistoricalMatchesFailing ==
    \E order \in date_orders(matches), fault \in Faults :
        \E errors \in SUBSET (1..Len(matches)) :
            LET r == process_historical_matches_failing(DB, order, errors, fault)
            IN  /\ fault = "after_loop" => matches # <<>>
                /\ Store(r.db)
                /\ last' = RebuildCall("process_historical_matches", order, errors,
                                       fault, r.raised)

\* EloFixer.fix_elo_ratings, errors included
FixEloRatings ==
    \E order \in date_orders(matches), fault \in Faults :
        \E errors \in SUBSET (1..Len(matches)) :
            LET r == fix_elo_ratings(DB, order, errors, fault)
            IN  /\ Store(r.db)
                /\ last' = RebuildCall("fix_elo_ratings", order, errors, fault, r.raised)

\* the store written through add_new_match and update_elo_ratings, then rebuilt
NextRebuild ==
    \/ AddNewMatchSameDay
    \/ UpdateEloRatings
    \/ ProcessHistoricalMatchesFailing
    \/ FixEloRatings

SpecRebuild == Init /\ [][NextRebuild]_vars

\* a caller invokes Database.add_new_match with a record of RecentMatchDatas
AddNewMatchRecent ==
    \E md \in RecentMatchDatas :
        LET r == add_new_match(DB, md)
        IN  /\ Len(r.db.matches) <= MaxMatches
            /\ Store(r.db)
            /\ last' = Call("add_new_match", md, <<>>, r.ret, <<>>, FALSE)

\* the store written through add_new_match, also with a match of today, and
\* synchronized by update_matches
NextSync ==
    \/ AddNewMatch
    \/ AddNewMatchRecent
    \/ UpdateMatches

SpecSync == Init /\ [][NextSync]_vars

\* a client posts to /predict/
PredictMatchNew ==
    \E h \in RequestTeamIds, a \in RequestTeamIds :
        LET r == predict_match_new(DB, h, a)
        IN  /\ h # a
            /\ Store(r.db)
            /\ last' = [op |-> "predict_match_new", home_team_id |-> h,
                        away_team_id |-> a, status |-> r.status, probs |-> r.probs,
                        features |-> r.features]

\* the triples a caller may hand to insert_match_prediction
Triples ==
    {FallbackProbs,
     [home_win |-> 5000, draw |-> 2500, away_win |-> 2500],
     [home_win |-> 3000, draw |-> 2500, away_win |-> 4500]}

\* a caller invokes Database.insert_match_prediction
InsertMatchPrediction ==
    \E match_id \in 1..MaxMatches, probs \in Triples :
        /\ Store(insert_match_prediction(DB, match_id, probs))
        /\ last' = [op |-> "insert_match_prediction", match_id |-> match_id,
                    probs |-> probs]

\* the model file is replaced by one whose predict_proba raises on the features
ModelFails ==
    /\ model = "ok"
    /\ model' = "failing"
    /\ UNCHANGED <<teams, matches, predictions, settings, eloLog, tasks>>
    /\ last' = [op |-> "model_fails"]

\* the store written through add_new_match, read by /predict/ and by a pass
NextPredict ==
    \/ AddNewMatchRecent
    \/ PredictMatchNew
    \/ ProcessNewMatches

SpecPredict == Init /\ [][NextPredict]_vars

\* the predictions table, written by /predict/ and by other callers of
\* insert_match_prediction, with a model that may come to fail
NextPredictions ==
    \/ AddNewMatchRecent
    \/ PredictMatchNew
    \/ InsertMatchPrediction
    \/ ModelFails

SpecPredictions == Init /\ [][NextPredictions]_vars

\* requests and passes with a model that may come to fail
NextIngest ==
    \/ AddNewMatchRecent
    \/ PredictMatchNew
    \/ ProcessNewMatches
    \/ ModelFails

SpecIngest == Init /\ [][NextIngest]_vars

\* a store holding a history of matches, each added through add_new_match
InitH2H ==
    \E h \in Histories, newest_first \in BOOLEAN :
        /\ teams = store_after(h, Len(h), newest_first).teams
        /\ matches = store_after(h, Len(h), newest_first).matches
        /\ predictions = EmptyDB.predictions
        /\ settings = EmptyDB.settings
        /\ eloLog = EmptyDB.eloLog
        /\ model = EmptyDB.model
        /\ tasks = NoTasks
        /\ last = Call("init", NoMatchData, <<>>, NULL, <<>>, FALSE)

\* a caller invokes Database.get_match_features
GetMatchFeatures ==
    \E h \in ApiTeamIds, a \in ApiTeamIds :
        /\ h # a
        /\ UNCHANGED <<teams, matches, predictions, settings, eloLog, model, tasks>>
        /\ last' = [op |-> "get_match_features", home_team_api_id |-> h,
                    away_team_api_id |-> a,
                    features |-> get_match_features(DB, h, a)]

\* a stored history, read through get_match_features
NextH2H == GetMatchFeatures

\* the store of four teams written through add_new_match, rated through
\* update_elo_ratings and read through get_match_features
NextFrame ==
    \/ AddNewMatchSameDay
    \/ UpdateEloRatings
    \/ GetMatchFeatures

SpecFrame == Init /\ [][NextFrame]_vars

SpecH2H == InitH2H /\ [][NextH2H]_vars

\* a request about to be made: what the upstream source will do with each of its
\* attempts is fixed from the start
InitRequest ==
    /\ teams = EmptyDB.teams
    /\ matches = EmptyDB.matches
    /\ predictions = EmptyDB.predictions
    /\ settings = EmptyDB.settings
    /\ eloLog = EmptyDB.eloLog
    /\ model = EmptyDB.model
    /\ tasks = NoTasks
    /\ \E outcomes \in [1..(max_retries + 1) -> Outcomes] :
           last = [op |-> "request", outcomes |-> outcomes, kind |-> "", waits |-> <<>>]

\* the caller awaits FootballAPIService._make_request
MakeRequest ==
    /\ last.op = "request"
    /\ UNCHANGED <<teams, matches, predictions, settings, eloLog, model, tasks>>
    /\ last' = [op |-> "_make_request", outcomes |-> last.outcomes,
                kind |-> make_request(last.outcomes).kind,
                waits |-> make_request(last.outcomes).waits]

\* requests to the upstream source
NextRequest == MakeRequest

SpecRequest == InitRequest /\ [][NextRequest]_vars

\* the step of schedule_updates that produced this state
Step(name, i) == [op |-> "schedule_updates", step |-> name, task |-> i]

\* a script or the server constructs a Database on the existing file: Database()
\* in main.py, MatchUpdater.__init__, init_db.py, backfill_predictions.py
DatabaseInit ==
    \E order \in date_orders(matches) :
        /\ Store(init_db(DB, order))
        /\ last' = Call("init_db", NoMatchData, <<>>, NULL, <<>>, FALSE)

\* a scheduler that passes over the store while init_db.py loads the historical
\* data and Database objects are constructed
NextWatermark ==
    \/ ImportHistoricalData
    \/ UpdateMatches
    \/ DatabaseInit

SpecWatermark == Init /\ [][NextWatermark]_vars

\* the days a fetch window may begin and end on
WindowDays == -6 .. 4

\* update_matches calls _get_date_chunks(from_date, to_date, self.chunk_size):
\* from_date is a midnight, to_date is datetime.now plus one day (or the midnight
\* of the season's end plus one day)
GetDateChunks ==
    \E lower \in WindowDays, upper \in WindowDays, time \in TimesOfDay :
        /\ lower <= upper
        /\ UNCHANGED <<teams, matches, predictions, settings, eloLog, model, tasks>>
        /\ last' = [op |-> "get_date_chunks",
                    start_date |-> at_midnight(lower),
                    end_date |-> at_midnight(upper) + time,
                    date_chunks |-> get_date_chunks(at_midnight(lower),
                                                    at_midnight(upper) + time, CHUNK_SIZE)]

NextChunks == GetDateChunks

SpecChunks == Init /\ [][NextChunks]_vars

\* the application starts: main.startup_event
StartupEvent ==
    /\ \A i \in TaskIds : tasks[i].pc = "none"
    /\ tasks' = [i \in TaskIds |-> IF i \in created_tasks THEN new_task ELSE NoTask]
    /\ UNCHANGED <<teams, matches, predictions, settings, eloLog, model>>
    /\ last' = Step("startup_event", 0)

\* a task calls update_matches: at its creation, and when its sleep has elapsed
BeginPass ==
    \E i \in TaskIds, endDate \in SeasonEnds, read_fails, write_fails \in BOOLEAN :
        LET r == begin_pass(DB, tasks[i], get_season_end_date(Now, endDate), Today,
                            read_fails, write_fails)
        IN  /\ tasks[i].pc \in {"created", "sleep"}
            /\ Write(r.db)
            /\ tasks' = [tasks EXCEPT ![i] = r.task]
            /\ last' = [op |-> "schedule_updates", step |-> "begin_pass", task |-> i,
                        endDate |-> endDate, read_fails |-> read_fails,
                        last_fetched_date |-> settings.last_fetched_date,
                        window |-> window_of(last_match_date_read(DB, read_fails),
                                             get_season_end_date(Now, endDate))]

\* the request of a sub-window returns
FetchStep ==
    \E i \in TaskIds, data \in Responses :
        /\ tasks[i].pc = "fetch"
        /\ tasks' = [tasks EXCEPT ![i] = fetch_step(tasks[i], data)]
        /\ UNCHANGED <<teams, matches, predictions, settings, eloLog, model>>
        /\ last' = Step("fetch", i)

IngestStep ==
    \E i \in TaskIds, model_loads \in BOOLEAN :
        /\ tasks[i].pc = "ingest"
        /\ Write(ingest_step(DB, tasks[i], model_loads).db)
        /\ tasks' = [tasks EXCEPT ![i] = ingest_step(DB, tasks[i], model_loads).task]
        /\ last' = Step("ingest", i)

WatermarkStep ==
    \E i \in TaskIds, write_fails \in BOOLEAN :
        /\ tasks[i].pc = "watermark"
        /\ Write(watermark_step(DB, tasks[i], Today, write_fails).db)
        /\ tasks' = [tasks EXCEPT ![i] = watermark_step(DB, tasks[i], Today, write_fails).task]
        /\ last' = Step("watermark", i)

SleepStep ==
    \E i \in TaskIds :
        /\ tasks[i].pc = "returned"
        /\ tasks' = [tasks EXCEPT ![i] = sleep_step(tasks[i])]
        /\ UNCHANGED <<teams, matches, predictions, settings, eloLog, model>>
        /\ last' = Step("sleep", i)

\* the background task of the application, on a store that init_db.py may fill
NextSchedule ==
    \/ ImportHistoricalData
    \/ AddNewMatchRecent
    \/ StartupEvent
    \/ BeginPass
    \/ FetchStep
    \/ IngestStep
    \/ WatermarkStep
    \/ SleepStep

SpecSchedule == Init /\ [][NextSchedule]_vars

\* the event loop runs a task that can run: a request returns, a sleep elapses
SpecScheduleFair ==
    SpecSchedule
        /\ WF_vars(BeginPass \/ FetchStep \/ IngestStep \/ WatermarkStep \/ SleepStep)

(* ------------------------------ properties ---------------------------- *)

\* the elements of a sequence
Range(q) == {q[i] : i \in 1..Len(q)}

\* the team row a (api id, name) pair stands for in ts, 0 when no row does
competitor(ts, api_id, name) ==
    IF team_by_api_id(ts, api_id) # 0 THEN team_by_api_id(ts, api_id)
    ELSE team_by_name(ts, name)

\* a row of ms carries the external id of md
id_is_stored(ms, md) ==
    md.match_id # NULL /\ \E i \in 1..Len(ms) : ms[i].api_match_id = md.match_id

\* a row of ms carries the (date, home competitor, away competitor) key of md
key_is_stored(ms, ts, md) ==
    \E i \in 1..Len(ms) :
        /\ ms[i].date = md.date
        /\ ms[i].home_team_id = competitor(ts, md.home_team_id, md.home_team_name)
        /\ ms[i].away_team_id = competitor(ts, md.away_team_id, md.away_team_name)

\* md replays a stored event: its external id is stored, or it has none and its key is
is_replay(ms, ts, md) ==
    \/ id_is_stored(ms, md)
    \/ md.match_id = NULL /\ key_is_stored(ms, ts, md)

\* no row of the teams table ts changed its rating on the way to ts2
ratings_kept(ts, ts2) ==
    /\ Len(ts2) >= Len(ts)
    /\ \A i \in 1..Len(ts) : ts2[i].elo = ts[i].elo

\* C1 -- idempotent re-ingestion: add_new_match called with a record whose external
\* id is stored, or with a record without external id whose (date, home, away) key is
\* stored, and process_new_matches called with a batch of such records, add no row
\* to the matches table and change no team's rating; add_new_match returns None.
\* Stated of every step, so of every replay.
C1_IdempotentReingestion ==
    [][/\ (last'.op = "add_new_match" /\ is_replay(matches, teams, last'.md))
            => /\ matches' = matches
               /\ ratings_kept(teams, teams')
               /\ last'.ret = NULL
       /\ (/\ last'.op = "process_new_matches"
           /\ \A k \in 1..Len(last'.batch) :
                  is_replay(matches, teams, match_data_of(last'.batch[k])))
            => /\ matches' = matches
               /\ ratings_kept(teams, teams')
               /\ last'.ret = 0]_vars

\* a record without external id was handed to add_new_match while a row imported
\* under an external id held its (date, home, away) key, and was refused
C1_Witness ==
    /\ last.op = "add_new_match"
    /\ last.md.match_id = NULL
    /\ last.ret = NULL
    /\ \E i \in 1..Len(matches) :
           /\ matches[i].api_match_id # NULL
           /\ matches[i].date = last.md.date
           /\ matches[i].home_team_id
                  = competitor(teams, last.md.home_team_id, last.md.home_team_name)
           /\ matches[i].away_team_id
                  = competitor(teams, last.md.away_team_id, last.md.away_team_name)

\* record k of the batch is one process_new_matches has to ingest: FINISHED, two
\* scores, a date that parses, neither its external id nor its key stored in (ms, ts),
\* and no earlier record of the batch with its external id or its fixture
must_ingest(ms, ts, batch, k) ==
    /\ batch[k].status = "FINISHED"
    /\ batch[k].home_goals # NoScore /\ batch[k].away_goals # NoScore
    /\ date_parses(batch[k].date)
    /\ ~id_is_stored(ms, match_data_of(batch[k]))
    /\ ~key_is_stored(ms, ts, match_data_of(batch[k]))
    /\ \A j \in 1..(k - 1) :
           /\ batch[j].match_id # batch[k].match_id
           /\ <<batch[j].date, batch[j].home_team, batch[j].away_team>>
                  # <<batch[k].date, batch[k].home_team, batch[k].away_team>>

\* the rows of ms2 added after the first n that hold the record rec
rows_added_for(ms2, n, rec) ==
    {i \in (n + 1)..Len(ms2) :
        /\ ms2[i].api_match_id = rec.match_id
        /\ ms2[i].date = rec.date
        /\ ms2[i].home_goals = rec.home_goals
        /\ ms2[i].away_goals = rec.away_goals}

\* C2 -- every call of process_new_matches adds exactly one row to the matches table
\* for each record of its batch that is FINISHED, has two scores and a date that
\* parses and is not stored yet, and returns the number of rows it added.
C2_EveryNewFinishedRecordAddsOneRow ==
    [][last'.op = "process_new_matches"
          => /\ \A k \in 1..Len(last'.batch) :
                    must_ingest(matches, teams, last'.batch, k)
                        => Cardinality(rows_added_for(matches', Len(matches),
                                                      last'.batch[k])) = 1
             /\ last'.ret = Len(matches') - Len(matches)]_vars

\* process_new_matches as the code stands: no call adds a row to the matches table
\* or applies a rating update (every record that passes the status gate and the
\* external-id lookup ends in the TypeError of the features call)
ProcessNewMatchesWritesNothing ==
    [][last'.op = "process_new_matches"
          => matches' = matches /\ teams' = teams /\ eloLog' = eloLog]_vars

\* C6 -- atomic ingestion: in no state does the matches table hold a row whose
\* rating update has not been applied, nor has a rating update been applied for a
\* match id the table does not hold.
C6_EventAndRatingUpdateTogether ==
    /\ \A i \in 1..Len(matches) : i \in Range(eloLog)
    /\ \A j \in 1..Len(eloLog) : eloLog[j] \in 1..Len(matches)

\* the store without the rows dated on or after match_date
before(db, match_date) ==
    LET Earlier(m) == m.date < match_date
    IN  [db EXCEPT !.matches = SelectSeq(db.matches, Earlier)]

\* the five aggregates of a feature dictionary
aggregates(f) ==
    <<f.H2H_Draws_Last_5, f.Draw_Tendency_Home, f.Draw_Tendency_Away,
      f.Avg_Home_GD_Last_5, f.Avg_Away_GD_Last_5>>

\* C7 -- no temporal leakage: the aggregates get_match_features2 returns for a pair
\* and a cutoff T are the ones it returns on the store without its events dated on
\* or after T.
C7_NoTemporalLeakage ==
    (/\ last.op = "get_match_features2"
     /\ last.match_date # NULL
     /\ last.features.found)
        => aggregates(last.features)
               = aggregates(get_match_features2(before(DB, last.match_date),
                                                last.home_team_api_id,
                                                last.away_team_api_id,
                                                last.match_date))

\* batch q without its k-th record
without(q, k) == SubSeq(q, 1, k - 1) \o SubSeq(q, k + 1, Len(q))

\* C8 -- a record whose status is not FINISHED is skipped at the status gate, and
\* the call leaves the matches table and the ratings as the same call on the batch
\* without that record leaves them: the record adds no row and changes no rating,
\* whatever else the batch holds.
C8_NonFinishedNeverIngested ==
    [][last'.op = "process_new_matches"
          => \A k \in 1..Len(last'.batch) :
                 last'.batch[k].status # "FINISHED"
                     => /\ last'.handled[k] = "skipped_not_finished"
                        /\ rows_added_for(matches', Len(matches), last'.batch[k]) = {}
                        /\ matches' = process_new_matches(DB, without(last'.batch, k)).db.matches
                        /\ teams' = process_new_matches(DB, without(last'.batch, k)).db.teams]_vars

\* a batch with a FINISHED record and a record that is not FINISHED was handled, on a
\* store that holds events, and the other record was skipped at the gate
C8_Witness ==
    /\ last.op = "process_new_matches"
    /\ matches # <<>>
    /\ \E k, j \in 1..Len(last.batch) :
           /\ last.batch[k].status # "FINISHED"
           /\ last.handled[k] = "skipped_not_finished"
           /\ last.batch[j].status = "FINISHED"

\* the records of the pass's responses that are well formed: a date that parses
\* and two scores
well_formed(m) ==
    /\ utcDate_parses(m.utcDate)
    /\ m.score.home # NoScore /\ m.score.away # NoScore

\* C9 -- per-record failure isolation: after a pass, every well-formed record of
\* every sub-window response that delivered matches has been handed to the
\* ingestion loop, whatever the other records of its sub-window are.
C9_EveryOtherRecordProcessed ==
    last.op = "update_matches"
        => \A c \in 1..Len(last.responses) :
               last.responses[c].kind = "matches"
                   => \A k \in 1..Len(last.responses[c].matches) :
                          well_formed(last.responses[c].matches[k])
                              => to_match(last.responses[c].matches[k]) \in Range(last.batch)

\* C10 -- Event uniqueness: no two rows of the matches table carry the same non-null
\* external id, and no two rows without external id carry the same
\* (date, home team, away team).
C10_EventUniqueness ==
    \A i, j \in 1..Len(matches) :
        i # j =>
            /\ ~(/\ matches[i].api_match_id # NULL
                 /\ matches[i].api_match_id = matches[j].api_match_id)
            /\ ~(/\ matches[i].api_match_id = NULL
                 /\ matches[j].api_match_id = NULL
                 /\ matches[i].date = matches[j].date
                 /\ matches[i].home_team_id = matches[j].home_team_id
                 /\ matches[i].away_team_id = matches[j].away_team_id)

\* add_new_match was handed an external id the table already holds, refused it, and
\* the table holds two rows
C10_Witness ==
    /\ last.op = "add_new_match"
    /\ last.md.match_id # NULL
    /\ last.ret = NULL
    /\ Len(matches) = 2
    /\ \E i \in 1..Len(matches) : matches[i].api_match_id = last.md.match_id

\* two rows of ts carry the same external id
shares_api_team_id(ts) ==
    \E i, j \in 1..Len(ts) :
        i # j /\ ts[i].api_team_id # NULL /\ ts[i].api_team_id = ts[j].api_team_id

\* row i of ts was inserted although an earlier row had its external id or its name
inserted_beside_existing(ts, i) ==
    \E j \in 1..(i - 1) :
        \/ ts[j].name = ts[i].name
        \/ ts[i].api_team_id # NULL /\ ts[j].api_team_id = ts[i].api_team_id

\* C11 -- competitor uniqueness: after every add_new_match no two teams rows share
\* an external id; a teams row add_new_match inserts has neither the external id nor
\* the name of a row that was there before it, nor of a team the record named and
\* that was stored, and its rating is 1500.0.
C11_CompetitorUniqueness ==
    [][last'.op = "add_new_match"
         => /\ ~shares_api_team_id(teams')
            /\ Len(teams') >= Len(teams)
            /\ \A i \in (Len(teams) + 1)..Len(teams') :
                   /\ ~inserted_beside_existing(teams', i)
                   /\ teams'[i].elo = DEFAULT_ELO * ELO_SCALE
            /\ (competitor(teams, last'.md.home_team_id, last'.md.home_team_name) # 0
                /\ competitor(teams, last'.md.away_team_id, last'.md.away_team_name) # 0)
                  => Len(teams') = Len(teams)]_vars

\* add_new_match reconciled a record with an imported id-less row by its name (the
\* row now carries the record's external id) and inserted no row for that team
C11_Witness ==
    /\ last.op = "add_new_match"
    /\ \E i \in 1..Len(teams) :
           /\ teams[i].name = last.md.home_team_name
           /\ teams[i].api_team_id = last.md.home_team_id
           /\ \E j \in 1..Len(matches) :
                  matches[j].api_match_id = NULL /\ matches[j].date = HistoricalCsv[1].Date
                  /\ matches[j].home_team_id = i
    /\ Len(teams) = Len(csv_teams(HistoricalCsv))

\* the ratings column of the teams table ts
ratings(ts) == [i \in 1..Len(ts) |-> ts[i].elo]

\* the operations that rebuild the ratings
Rebuilds == {"process_historical_matches", "fix_elo_ratings"}

\* C13 -- rebuild determinism: a rebuild that runs right after a rebuild over the
\* same stored matches, read in the same order, both without error, leaves every
\* team the rating the first run left it, also when several matches share a date.
C13_RebuildDeterminism ==
    [][(last'.op \in Rebuilds /\ last'.repeat) => ratings(teams') = ratings(teams)]_vars

\* a rebuild was repeated over a store with two matches on the same day and left
\* ratings other than 1500.0
C13_Witness ==
    /\ last.op \in Rebuilds
    /\ last.repeat
    /\ \E i, j \in 1..Len(matches) : i # j /\ matches[i].date = matches[j].date
    /\ \E i \in 1..Len(teams) : teams[i].elo # DEFAULT_ELO * ELO_SCALE

\* C14 -- the rebuild is all-or-nothing: a rebuild that meets an error after the
\* reset (update_elo_ratings raising for one match, or an exception outside the
\* loop) leaves the ratings as they were before the rebuild and re-raises the error.
C14_RebuildAllOrNothing ==
    [][(last'.op \in Rebuilds /\ (last'.errors # {} \/ last'.fault # "none"))
         => (ratings(teams') = ratings(teams) /\ last'.raised)]_vars

\* no teams row of ts carries the api id
is_unknown(ts, api_id) == team_by_api_id(ts, api_id) = 0

\* C15 -- a team unknown to the store: a /predict/ request that names one gets no
\* feature vector and no probabilities, and changes no table; a pass over a batch
\* with a record of such a team stores no prediction and changes no table.
C15_UnknownCompetitorNoPrediction ==
    [][/\ (/\ last'.op = "predict_match_new"
           /\ (is_unknown(teams, last'.home_team_id) \/ is_unknown(teams, last'.away_team_id)))
            => /\ ~last'.features.found
               /\ last'.probs = NoProbs
               /\ last'.status # 200
               /\ UNCHANGED <<teams, matches, predictions, settings, eloLog>>
       /\ (/\ last'.op = "process_new_matches"
           /\ \E k \in 1..Len(last'.batch) :
                  \/ is_unknown(teams, last'.batch[k].home_team.id)
                  \/ is_unknown(teams, last'.batch[k].away_team.id))
            => UNCHANGED <<teams, matches, predictions, settings, eloLog>>]_vars

\* a /predict/ request named a stored team and an unknown one and was refused,
\* while a request for two stored teams has its prediction stored
C15_Witness ==
    /\ last.op = "predict_match_new"
    /\ is_unknown(teams, last.away_team_id)
    /\ ~is_unknown(teams, last.home_team_id)
    /\ last.status = 500
    /\ predictions # {}

\* the stored meetings of the teams with api ids x and y, in either role
meetings(ms, ts, x, y) ==
    {i \in 1..Len(ms) :
        {ms[i].home_team_id, ms[i].away_team_id}
            = {team_by_api_id(ts, x), team_by_api_id(ts, y)}}

\* the meetings of M that fewer than 5 other meetings of M are more recent than
most_recent_5(ms, M) ==
    {i \in M : Cardinality({j \in M : ms[j].date > ms[i].date}) < 5}

\* the draws among the rows M
draws_among(ms, M) == Cardinality({i \in M : ms[i].home_goals = ms[i].away_goals})

\* C16 (as stated) -- H2H_Draws_Last_5 is the number of draws among the 5 most
\* recent meetings of the two teams in either role, and 0 when fewer than 5
\* meetings are stored.
C16_H2HDrawsZeroBelowFive ==
    (last.op = "get_match_features" /\ last.features.found)
        => last.features.H2H_Draws_Last_5
               = IF Cardinality(meetings(matches, teams, last.home_team_api_id,
                                         last.away_team_api_id)) < 5
                 THEN 0
                 ELSE draws_among(matches,
                          most_recent_5(matches,
                              meetings(matches, teams, last.home_team_api_id,
                                       last.away_team_api_id)))

\* C16 (amended) -- H2H_Draws_Last_5 is the number of draws among the at most 5
\* most recent meetings of the two teams in either role, however many are stored.
C16_H2HDrawsLast5 ==
    (last.op = "get_match_features" /\ last.features.found)
        => last.features.H2H_Draws_Last_5
               = draws_among(matches,
                     most_recent_5(matches,
                         meetings(matches, teams, last.home_team_api_id,
                                  last.away_team_api_id)))

\* the lookup counted draws of a pair with more than 5 meetings, one of them a draw
\* too old to count, with the away team of the lookup at home in a counted draw
C16_Witness ==
    /\ last.op = "get_match_features"
    /\ last.features.found
    /\ last.features.H2H_Draws_Last_5 > 0
    /\ LET M == meetings(matches, teams, last.home_team_api_id, last.away_team_api_id)
       IN  /\ Cardinality(M) > 5
           /\ \E i \in M \ most_recent_5(matches, M) :
                  matches[i].home_goals = matches[i].away_goals
           /\ \E i \in most_recent_5(matches, M) :
                  /\ matches[i].home_goals = matches[i].away_goals
                  /\ matches[i].home_team_id
                         = team_by_api_id(teams, last.away_team_api_id)

C17_WitnessEmptyWindow ==
    /\ last.op = "update_matches"
    /\ returns_early(get_last_match_date(matches), last.season_end_date)
    /\ last.responses = <<>>
    /\ settings.last_fetched_date = Today

C18_InterRequestDelay ==
    last.op = "update_matches"
        => \A c \in 1..(Len(last.responses) - 1) :
               last.sleeps[c] >= INTER_REQUEST_DELAY

\* the sub-window c of a pass was fetched successfully: its response carries
\* matches, and every one of them was turned into a record
fetched(responses, c) ==
    /\ responses[c].kind = "matches"
    /\ \A k \in 1..Len(responses[c].matches) :
           utcDate_parses(responses[c].matches[k].utcDate)

\* C19 -- a failed sub-window does not stop the pass: every sub-window fetched
\* successfully, also one that follows a sub-window whose request returned an error
\* or whose handling raised, has all its records in the batch handed to
\* process_new_matches, which handled every record of the batch.
C19_FailedChunkDoesNotBlock ==
    last.op = "update_matches"
        => /\ \A c \in 1..Len(last.responses) :
                  fetched(last.responses, c)
                      => \A k \in 1..Len(last.responses[c].matches) :
                             to_match(last.responses[c].matches[k]) \in Range(last.batch)
           /\ Len(last.handled) = Len(last.batch)

\* the first sub-window's request failed (error result, or an exception while its
\* records were read), the second was fetched successfully, and its record is in
\* the batch that was handled
C19_Witness ==
    /\ last.op = "update_matches"
    /\ Len(last.responses) = 2
    /\ ~fetched(last.responses, 1)
    /\ last.responses[1].kind \in {"error", "matches"}
    /\ fetched(last.responses, 2)
    /\ to_match(last.responses[2].matches[1]) \in Range(last.batch)
    /\ Len(last.handled) = Len(last.batch)

\* attempt number i (the first is 1) of the request got a 429 and was followed by
\* another attempt
retried_after_429(call, i) ==
    /\ i < Len(call.waits)
    /\ call.outcomes[i].status = 429

\* C20 -- the wait after a rate-limit response: before the retry the request sleeps
\* the seconds the response suggests when it suggests some and they are at most 60,
\* and initial_retry_delay * 2^attempt when it suggests none; no wait after a 429
\* is longer than 60 seconds.
C20_RetryWait ==
    last.op = "_make_request"
        => /\ \A i \in 1..Len(last.waits) :
                  last.outcomes[i].status = 429 => last.waits[i] <= 60
           /\ \A i \in 1..Len(last.waits) :
                  retried_after_429(last, i)
                      => IF last.outcomes[i].message = "suggested"
                         THEN last.outcomes[i].seconds <= 60
                                  => last.waits[i] = last.outcomes[i].seconds
                         ELSE last.waits[i] = 5 * 2^(i - 1)

\* a request whose second attempt got a 429 suggesting 3 seconds and slept 3 (not
\* the default 10), whose third got a 429 suggesting 120 seconds and slept 60, and
\* whose fourth attempt was made
C20_Witness ==
    /\ last.op = "_make_request"
    /\ Len(last.waits) = 4
    /\ last.outcomes[2] = [status |-> 429, message |-> "suggested", seconds |-> 3]
    /\ last.waits[2] = 3
    /\ last.outcomes[3] = [status |-> 429, message |-> "suggested", seconds |-> 120]
    /\ last.waits[3] = 60

\* C21 -- bounded retry: one request makes at most max_retries + 1 = 4 attempts
\* whatever mix of rate-limit responses and transport errors the attempts meet, it
\* returns (data or an error value, never an exception), and a request whose last
\* attempt did not get a 200 returns the error value.
C21_BoundedRetry ==
    last.op = "_make_request"
        => /\ Len(last.waits) \in 1..4
           /\ last.kind \in {"data", "error"}
           /\ last.outcomes[Len(last.waits)].status # 200 => last.kind = "error"

\* a request that met a 429, a transport error, a 429 and a transport error: four
\* attempts were made and the error value came back
C21_Witness ==
    /\ last.op = "_make_request"
    /\ Len(last.waits) = 4
    /\ last.outcomes[1].status = 429
    /\ last.outcomes[2].status = NULL
    /\ last.outcomes[3].status = 429
    /\ last.outcomes[4].status = NULL
    /\ last.kind = "error"

\* C22 -- the synchronization loop never ends on an error: whatever fails inside a
\* pass (a request, the store, a malformed record, the loading of the model), the
\* task reaches its sleep of 24 hours, and after the sleep it runs another pass to
\* its end: every pass is followed by another one.
C22_LoopNeverTerminates ==
    \A i \in created_tasks :
        /\ (tasks[i].pc # "none") ~> (tasks[i].pc = "sleep" /\ tasks[i].slept = 86400)
        /\ (tasks[i].pc = "sleep") ~> (tasks[i].pc = "returned")

\* a pass that ended in the except of update_matches, without a watermark, and
\* whose task sleeps
C22_Witness ==
    /\ tasks[1].pc = "sleep"
    /\ tasks[1].failed
    /\ ~tasks[1].written
    /\ tasks[1].all_matches # <<>>

\* this step is the step name of task i
step_of(i, name) ==
    /\ last'.op = "schedule_updates"
    /\ last'.step = name
    /\ last'.task = i

\* the order of the phases that holds in every pass: ingestion starts when no
\* sub-window is left to request; last_fetched_date is written at the early return
\* of a pass without sub-windows, or after ingestion, with nothing left to request;
\* a pass starts at the creation of the task or out of a sleep of 24 hours
phase_order(i) ==
    /\ step_of(i, "ingest") => tasks[i].pc = "ingest" /\ tasks[i].chunks = <<>>
    /\ step_of(i, "watermark") => tasks[i].pc = "watermark" /\ tasks[i].chunks = <<>>
    /\ (step_of(i, "begin_pass") /\ tasks'[i].written) => tasks'[i].chunks = <<>>
    /\ step_of(i, "begin_pass")
           => \/ tasks[i].pc = "created"
              \/ tasks[i].pc = "sleep" /\ tasks[i].slept = 86400

\* C23 (as stated) -- phase order within a pass: ingestion starts only after every
\* sub-window has been attempted, the watermark is written only after ingestion
\* has returned, the sleep begins only after the watermark write, and no fetch of
\* the next pass starts before the sleep has elapsed.
C23_PhaseOrder ==
    [][\A i \in TaskIds :
           /\ phase_order(i)
           /\ step_of(i, "sleep") => tasks[i].written]_vars

\* C23 (amended) -- phase order within a pass: ingestion starts only after every
\* sub-window has been attempted, the watermark is written only after ingestion
\* has returned, and no fetch of the next pass starts before the sleep has elapsed;
\* the sleep begins after the watermark write in a pass that did not fail, and
\* without a watermark in a pass that failed (in ingestion, or at the write).
C23_PhaseOrderUnlessFailed ==
    [][\A i \in TaskIds :
           /\ phase_order(i)
           /\ step_of(i, "sleep") => tasks[i].written # tasks[i].failed]_vars

\* a pass that collected matches, handed them to ingestion, wrote the watermark
\* and went to sleep
C23_Witness ==
    /\ last.op = "schedule_updates"
    /\ last.step = "sleep"
    /\ tasks[1].pc = "sleep"
    /\ tasks[1].all_matches # <<>>
    /\ tasks[1].written
    /\ ~tasks[1].failed

\* update_matches of the task is in progress
in_pass(task) == task.pc \in {"fetch", "ingest", "watermark"}

\* C24 -- no two synchronization passes are in progress at the same time: a pass
\* starts only when no pass of any task is in progress, and a task that ran a pass
\* before starts the next only out of its sleep of 24 hours, which began when the
\* previous pass had returned.
C24_NoConcurrentPasses ==
    [][/\ Cardinality({i \in TaskIds : in_pass(tasks'[i])}) <= 1
       /\ \A i \in TaskIds :
              /\ step_of(i, "begin_pass")
                     => /\ \A j \in TaskIds : ~in_pass(tasks[j])
                        /\ tasks[i].pc # "created"
                               => tasks[i].pc = "sleep" /\ tasks[i].slept = 86400
              /\ step_of(i, "sleep") => tasks[i].pc = "returned"]_vars

\* the task is in its second pass or a later one, requesting a sub-window
C24_Witness ==
    /\ tasks[1].pc = "fetch"
    /\ tasks[1].slept = 86400
    /\ \A i \in TaskIds \ {1} : tasks[i].pc = "none"

\* C25 -- prediction records are insert-if-absent: the table holds at most one row
\* per match id, a row once stored stays as it is, and an insert for a match id
\* that has no row stores the triple it was called with.
C25_InsertIfAbsent ==
    [][/\ \A p, q \in predictions' : p.match_id = q.match_id => p = q
       /\ predictions \subseteq predictions'
       /\ (/\ last'.op = "insert_match_prediction"
           /\ \A p \in predictions : p.match_id # last'.match_id)
              => [match_id |-> last'.match_id, probs |-> last'.probs] \in predictions']_vars

\* an insert for a match that already had a prediction, with another triple: the
\* row still holds the first one
C25_Witness ==
    /\ last.op = "insert_match_prediction"
    /\ \E p \in predictions : p.match_id = last.match_id /\ p.probs # last.probs

\* C26 -- zero-sum rating update: the actual scores of the two sides sum to 1; the
\* change of the home rating is the exact negation of the change of the away
\* rating (so the expected scores sum to 1 as well), and the update changes no
\* other rating: the sum of all ratings is the same before and after.
C26_ZeroSumUpdate ==
    [][(last'.op = "update_elo_ratings" /\ ~last'.raised)
          => /\ home_actual(matches[last'.ret].result)
                    + away_actual(matches[last'.ret].result) = ELO_SCALE
             /\ teams'[matches[last'.ret].home_team_id].elo
                    - teams[matches[last'.ret].home_team_id].elo
                = -(teams'[matches[last'.ret].away_team_id].elo
                        - teams[matches[last'.ret].away_team_id].elo)
             /\ Len(teams') = Len(teams)
             /\ \A i \in 1..Len(teams) :
                    i \notin {matches[last'.ret].home_team_id,
                              matches[last'.ret].away_team_id}
                        => teams'[i].elo = teams[i].elo]_vars

\* a drawn match was folded after another fold had moved the ratings away from
\* 1500, and the two ratings changed
C26_Witness ==
    /\ last.op = "update_elo_ratings"
    /\ ~last.raised
    /\ matches[last.ret].result = DRAW
    /\ Len(eloLog) = 2
    /\ eloLog[1] # eloLog[2]
    /\ teams[matches[last.ret].home_team_id].elo # DEFAULT_ELO * ELO_SCALE

\* C27 -- a /predict/ request that names a team unknown to the store is answered
\* "not found" (status 404), which is not the answer of an internal error (status
\* 500), and stores no prediction.
C27_UnknownCompetitorNotFound ==
    [][(/\ last'.op = "predict_match_new"
        /\ (is_unknown(teams, last'.home_team_id) \/ is_unknown(teams, last'.away_team_id)))
          => /\ last'.status = 404
             /\ last'.status # 500
             /\ predictions' = predictions]_vars

\* a record of a batch that is there to be ingested and predicted: FINISHED, under
\* an external id the store does not hold, of two teams the store knows, on a day
\* of which the store holds no match
to_be_ingested(db, match) ==
    /\ is_finished(match)
    /\ match.match_id # NULL
    /\ ~api_match_id_stored(db.matches, match.match_id)
    /\ \A i \in 1..Len(db.matches) : db.matches[i].date # match.date
    /\ get_match_features(db, match.home_team.id, match.away_team.id).found

\* C28 -- a failure of the model does not propagate: with a model whose call
\* raises, a prediction request is answered with the fallback triple
\* (0.4, 0.3, 0.3), whose components sum to 1, and a pass still ingests the events
\* it would predict.
C28_FallbackAndIngestionProceeds ==
    [][/\ (last'.op = "predict_match_new" /\ model = "failing" /\ last'.features.found)
            => /\ last'.status = 200
               /\ last'.probs = [home_win |-> 4000, draw |-> 3000, away_win |-> 3000]
               /\ last'.probs.home_win + last'.probs.draw + last'.probs.away_win
                      = ELO_SCALE
       /\ (last'.op = "process_new_matches" /\ model = "failing")
            => \A k \in 1..Len(last'.batch) :
                   to_be_ingested(DB, last'.batch[k])
                       => api_match_id_stored(matches', last'.batch[k].match_id)]_vars

\* with a model whose call raises, /predict/ answers the fallback triple
C28_FallbackOnRequest ==
    [][(last'.op = "predict_match_new" /\ model = "failing" /\ last'.features.found)
            => /\ last'.status = 200
               /\ last'.probs = [home_win |-> 4000, draw |-> 3000, away_win |-> 3000]]_vars

\* a rebuild that returned: its reset done, eloLog holds the match ids it folded,
\* in the order it folded them. Every stored match is folded exactly once, in
\* non-decreasing date order, starting from 1500.0 for every team.
folded_each_once ==
    /\ Len(eloLog') = Len(matches)
    /\ \A i \in 1..Len(matches) : \E j \in 1..Len(eloLog') : eloLog'[j] = i
    /\ \A j, k \in 1..Len(eloLog') :
           j < k => matches[eloLog'[j]].date <= matches[eloLog'[k]].date
    /\ ratings(teams') = ratings(fold_matches(reset_elo_ratings(DB), eloLog').teams)

\* C29 -- the full rebuild: every rating is set to 1500.0, then the rating update
\* is applied to each stored match exactly once, in non-decreasing date order; a
\* rebuild that returns has left no stored match unfolded and folded none twice.
C29_RebuildFoldsEachOnce ==
    [][(last'.op \in Rebuilds /\ ~last'.raised) => folded_each_once]_vars

\* the same for a rebuild during which no statement raises
C29_RebuildFoldsEachOnceWithoutError ==
    [][(last'.op \in Rebuilds /\ last'.errors = {} /\ last'.fault = "none")
           => folded_each_once]_vars

\* a rebuild without error folded two matches of different dates that were
\* stored in the reverse order of their dates
C29_ReachedOutOfOrderStore ==
    /\ last.op \in Rebuilds
    /\ last.errors = {} /\ last.fault = "none"
    /\ Len(eloLog) = 2
    /\ eloLog[1] > eloLog[2]
    /\ matches[eloLog[1]].date < matches[eloLog[2]].date

\* process_new_matches as the code stands stores no prediction: the features call
\* of every record that reaches it raises before prepare_features and predict
ProcessNewMatchesStoresNoPrediction ==
    [][last'.op = "process_new_matches" => predictions' = predictions]_vars

\* the calendar dates a sub-window asks the upstream for: dateFrom .. dateTo,
\* both strftime('%Y-%m-%d')
dates_of(chunk) == date_of(chunk.start) .. date_of(chunk.end)

\* the sub-windows of chunks that hold the date d
chunks_with(chunks, d) == {c \in 1..Len(chunks) : d \in dates_of(chunks[c])}

\* C31 -- sub-window partition: the sub-windows _get_date_chunks returns for a
\* window [lower, upper] with lower <= upper, read as inclusive date ranges, hold
\* every calendar date of the window exactly once, and none extends outside it.
C31_SubWindowPartition ==
    last.op = "get_date_chunks"
        => /\ \A d \in date_of(last.start_date) .. date_of(last.end_date) :
                  Cardinality(chunks_with(last.date_chunks, d)) = 1
           /\ \A c \in 1..Len(last.date_chunks) :
                  dates_of(last.date_chunks[c])
                      \subseteq date_of(last.start_date) .. date_of(last.end_date)

\* no date is in two sub-windows and no sub-window extends outside the window
C31_DisjointAndInside ==
    last.op = "get_date_chunks"
        => /\ \A d \in date_of(last.start_date) .. date_of(last.end_date) :
                  Cardinality(chunks_with(last.date_chunks, d)) <= 1
           /\ \A c \in 1..Len(last.date_chunks) :
                  dates_of(last.date_chunks[c])
                      \subseteq date_of(last.start_date) .. date_of(last.end_date)

\* a date is missing only if it is the last of the window and the window ends at
\* midnight
C31_OnlyMidnightEndMissing ==
    last.op = "get_date_chunks"
        => \A d \in date_of(last.start_date) .. date_of(last.end_date) :
               chunks_with(last.date_chunks, d) = {}
                   => d = date_of(last.end_date) /\ last.end_date = at_midnight(d)

\* a window of more than one sub-window was split and every date of it is held
C31_ReachedCoveredWindow ==
    /\ last.op = "get_date_chunks"
    /\ Len(last.date_chunks) > 1
    /\ \A d \in date_of(last.start_date) .. date_of(last.end_date) :
           chunks_with(last.date_chunks, d) # {}

\* C32 -- fetch-window upper bound: when the upstream source supplies the end date
\* of the season, the fetch window of the pass ends on that date plus one day.
C32_UpperBoundIsSeasonEndPlusOne ==
    (last.op = "schedule_updates" /\ last.step = "begin_pass" /\ last.window # <<>>)
        => last.window[2] = at_midnight(last.endDate) + DAY

\* as the code stands the fetch window ends one day after the time of the pass
C32_UpperBoundIsNowPlusOne ==
    (last.op = "schedule_updates" /\ last.step = "begin_pass" /\ last.window # <<>>)
        => date_of(last.window[2]) = Today + 1

\* a pass got to compute its fetch window
window_computed ==
    last.op = "schedule_updates" /\ last.step = "begin_pass" /\ last.window # <<>>

\* C33 -- fetch-window lower bound: the window of a pass begins 10 days before the
\* latest stored match date when a match is stored, and on the season start
\* (2024-08-01) when none is; nothing else enters.
C33_LowerBound ==
    window_computed
        => last.window[1] = IF matches = <<>>
                            THEN at_midnight(SEASON_START)
                            ELSE at_midnight(max_date(matches) - LOOKBACK_DAYS)

\* C33 as amended -- the same, except that the window also begins on the season
\* start when get_last_match_date could not read the store and returned None.
C33_LowerBoundUnlessReadFails ==
    window_computed
        => last.window[1] = IF matches = <<>> \/ last.read_fails
                            THEN at_midnight(SEASON_START)
                            ELSE at_midnight(max_date(matches) - LOOKBACK_DAYS)

\* a pass over a store that holds a match began its window 10 days before that
\* match, which is not the season start
C33_Witness ==
    /\ window_computed
    /\ matches # <<>>
    /\ ~last.read_fails
    /\ last.window[1] = at_midnight(max_date(matches) - LOOKBACK_DAYS)
    /\ last.window[1] # at_midnight(SEASON_START)

\* C34 -- the watermark one pass wrote bounds the fetch window of the next pass
\* (the window does not reach back further than the lookback before it), and what
\* a pass ingests for a given upstream content does not depend on the watermark.
C34_WatermarkBoundsNextWindow ==
    (window_computed /\ last.last_fetched_date # NULL)
        => date_of(last.window[1]) >= last.last_fetched_date - LOOKBACK_DAYS

\* as the code stands the window of a pass is the same whatever the watermark
\* holds: it is the window of the stored matches and the clock
C34_WindowIgnoresWatermark ==
    [][(last'.op = "schedule_updates" /\ last'.step = "begin_pass")
          => last'.window
                 = window_of(IF last'.read_fails THEN NULL ELSE get_last_match_date(matches),
                             Now)]_vars

\* a pass began with a watermark stored by the pass before it and computed a window
C34_ReachedSecondPass ==
    /\ window_computed
    /\ last.last_fetched_date = Today
    /\ tasks[last.task].slept = SLEEP_SECONDS

\* C35 -- name reconciliation backfills only id-less teams: add_new_match writes
\* the external id of a record onto an existing teams row only if that row has no
\* external id; an external id a teams row holds is never overwritten.
C35_BackfillOnlyIdLess ==
    [][last'.op = "add_new_match"
         => \A i \in 1..Len(teams) :
                teams[i].api_team_id # NULL
                    => teams'[i].api_team_id = teams[i].api_team_id]_vars

\* add_new_match leaves the external id of every row that was found by its id
C35_RowFoundByIdKeepsId ==
    [][last'.op = "add_new_match"
         => \A i \in 1..Len(teams) :
                (/\ teams[i].api_team_id # NULL
                 /\ teams[i].api_team_id \in {last'.md.home_team_id, last'.md.away_team_id})
                    => teams'[i].api_team_id = teams[i].api_team_id]_vars

\* an id-less row was given the external id of a record that named it
C35_ReachedBackfill ==
    /\ last.op = "add_new_match"
    /\ \E i \in 1..Len(teams) :
           /\ teams[i].name = last.md.home_team_name
           /\ teams[i].api_team_id = last.md.home_team_id
           /\ i <= Len(csv_teams(HistoricalCsv))

\* the stored matches, before the day cutoff when one is given, in which the team
\* with api id x played at home, and those in which it played away
played_at_home(ms, ts, x, cutoff) ==
    {i \in 1..Len(ms) : /\ ms[i].home_team_id = team_by_api_id(ts, x)
                        /\ (cutoff # NULL => ms[i].date < cutoff)}

played_away(ms, ts, x, cutoff) ==
    {i \in 1..Len(ms) : /\ ms[i].away_team_id = team_by_api_id(ts, x)
                        /\ (cutoff # NULL => ms[i].date < cutoff)}

\* the home goals minus the away goals of the rows W, summed
home_goal_diff(ms, W) ==
    sum_over([i \in 1..Len(ms) |-> ms[i].home_goals - ms[i].away_goals], W)

\* value is the mean of total over the count rows of a window, 0 over an empty one
\* (rates and means are kept as multiples of 1/RATE_SCALE)
is_mean_over(value, total, count) ==
    IF count = 0 THEN value = 0 ELSE value * count = total * RATE_SCALE

\* the four role-specific fields of the feature dictionary f are those of the
\* windows H (home side at home) and A (away side away) of the matches ms
role_fields_over(f, ms, H, A) ==
    /\ is_mean_over(f.Draw_Tendency_Home, draws_among(ms, H), Cardinality(H))
    /\ is_mean_over(f.Avg_Home_GD_Last_5, home_goal_diff(ms, H), Cardinality(H))
    /\ is_mean_over(f.Draw_Tendency_Away, draws_among(ms, A), Cardinality(A))
    /\ is_mean_over(f.Avg_Away_GD_Last_5, 0 - home_goal_diff(ms, A), Cardinality(A))

\* the smaller of 5 and n
min5(n) == IF n < 5 THEN n ELSE 5

\* C36 -- role-specific last-5 window: Draw_Tendency_Home and Avg_Home_GD_Last_5
\* are the fraction of draws and the mean of own minus opponent goals over exactly
\* the min(5, n) most recent of the n stored matches the home side played at home,
\* Draw_Tendency_Away and Avg_Away_GD_Last_5 the same over the matches the away
\* side played away, and each is 0 over an empty window.
C36_RoleSpecificLast5 ==
    (last.op = "get_match_features" /\ last.features.found)
        => LET Hs == played_at_home(matches, teams, last.home_team_api_id, NULL)
               As == played_away(matches, teams, last.away_team_api_id, NULL)
           IN  /\ Cardinality(most_recent_5(matches, Hs)) = min5(Cardinality(Hs))
               /\ Cardinality(most_recent_5(matches, As)) = min5(Cardinality(As))
               /\ role_fields_over(last.features, matches,
                                   most_recent_5(matches, Hs), most_recent_5(matches, As))

\* the same for get_match_features2, whose windows hold only matches before the
\* match_date it is given
C36_RoleSpecificLast5BeforeDate ==
    (last.op = "get_match_features2" /\ last.features.found)
        => LET Hs == played_at_home(matches, teams, last.home_team_api_id, last.match_date)
               As == played_away(matches, teams, last.away_team_api_id, last.match_date)
           IN  role_fields_over(last.features, matches,
                                most_recent_5(matches, Hs), most_recent_5(matches, As))

\* a lookup for a home side with more than 5 home matches, the oldest of them a
\* draw that no longer counts, gave a draw tendency and a mean goal difference
\* other than 0
C36_Witness ==
    /\ last.op = "get_match_features"
    /\ last.features.found
    /\ last.features.Draw_Tendency_Home # 0
    /\ last.features.Avg_Home_GD_Last_5 # 0
    /\ LET Hs == played_at_home(matches, teams, last.home_team_api_id, NULL)
       IN  /\ Cardinality(Hs) > 5
           /\ \E i \in Hs \ most_recent_5(matches, Hs) :
                  matches[i].home_goals = matches[i].away_goals

\* C37 -- the persisted watermark never decreases: over any sequence of passes and
\* rebuilds, each write of last_fetched_date stores a date at or after the date
\* stored before it.
C37_WatermarkNeverDecreases ==
    [][(settings.last_fetched_date # NULL /\ settings'.last_fetched_date # NULL)
           => settings'.last_fetched_date >= settings.last_fetched_date]_vars

\* a pass never lowers the watermark (the clock of the run does not go back)
C37_PassNeverLowers ==
    [][(last'.op = "update_matches" /\ settings.last_fetched_date # NULL)
           => settings'.last_fetched_date >= settings.last_fetched_date]_vars

\* a pass raised the watermark a rebuild had written
C37_ReachedPassAfterRebuild ==
    /\ last.op = "update_matches"
    /\ settings.historical_matches_processed
    /\ matches # <<>>
    /\ settings.last_fetched_date > max_date(matches)

\* the rows of the teams table other than those of teams h and a are as they were
other_teams_unchanged(h, a) ==
    /\ Len(teams') = Len(teams)
    /\ \A i \in 1..Len(teams) : i \notin {h, a} => teams'[i] = teams[i]

\* of the rows of teams h and a, only the rating and its timestamp are written
only_rating_written(h, a) ==
    \A i \in {h, a} :
        teams'[i] = [teams[i] EXCEPT !.elo = teams'[i].elo,
                                     !.updated_at = teams'[i].updated_at]

\* C38 -- frame of a rating update: the rating update for a match between H and A
\* changes only the ratings of H and A, the rating of every other team and every
\* match row are left as they were; a feature computation changes no stored state.
C38_RatingUpdateFrame ==
    [][/\ (last'.op = "update_elo_ratings" /\ ~last'.raised)
            => /\ other_teams_unchanged(matches[last'.ret].home_team_id,
                                        matches[last'.ret].away_team_id)
               /\ only_rating_written(matches[last'.ret].home_team_id,
                                      matches[last'.ret].away_team_id)
               /\ matches' = matches
               /\ predictions' = predictions
               /\ settings' = settings
       /\ (last'.op = "update_elo_ratings" /\ last'.raised)
            => UNCHANGED <<teams, matches, predictions, settings, eloLog>>
       /\ last'.op = "get_match_features"
            => UNCHANGED <<teams, matches, predictions, settings, eloLog, model>>]_vars

\* a rating update moved the ratings of its two teams while a third team is stored
C38_ReachedUpdateBesideThirdTeam ==
    /\ last.op = "update_elo_ratings"
    /\ ~last.raised
    /\ Len(teams) >= 3
    /\ \E i \in 1..Len(teams) :
           /\ i \notin {matches[last.ret].home_team_id, matches[last.ret].away_team_id}
           /\ teams[i].elo # teams[matches[last.ret].away_team_id].elo
    /\ teams[matches[last.ret].home_team_id].elo
           # teams[matches[last.ret].away_team_id].elo

\* features were computed over a store whose ratings had been updated
C38_ReachedFeaturesAfterUpdate ==
    /\ last.op = "get_match_features"
    /\ eloLog # <<>>
    /\ Len(teams) >= 3

====
